---------------------------- MODULE Spec2Model ----------------------------
(***************************************************************************)
(* Resource-quantity parsing, formatting and cluster aggregation of the    *)
(* k8s-monitoring backend (kubernetesService) and frontend (formatters).   *)
(*                                                                         *)
(* Strings are sequences of one-character strings.  JavaScript numbers     *)
(* are modelled exactly: a number is NaN or sign * n * 2^e2 * 5^e5 with n  *)
(* an arbitrary-precision natural (little-endian decimal digits), which    *)
(* represents every value the unit multipliers (10^k, 1000^k, 1024^k)      *)
(* produce from a decimal literal.  Binary floating-point rounding error   *)
(* is not modelled, except that toFixed may round an exact decimal tie     *)
(* either way (the double nearest to a tie lies on either side of it).     *)
(***************************************************************************)
EXTENDS Integers, Sequences, FiniteSets, TLC

(***************************************************************************)
(* Arbitrary-precision naturals: little-endian decimal digits, no leading  *)
(* (most significant) zero; zero is the empty sequence.                    *)
(***************************************************************************)
RECURSIVE BTrim(_)
BTrim(d) ==
  IF d = <<>> THEN <<>>
  ELSE IF d[Len(d)] = 0 THEN BTrim(SubSeq(d, 1, Len(d) - 1)) ELSE d

RECURSIVE BMulC(_, _, _)
BMulC(d, k, c) ==
  IF d = <<>>
  THEN IF c = 0 THEN <<>> ELSE <<c % 10>> \o BMulC(<<>>, k, c \div 10)
  ELSE LET t == d[1] * k + c IN <<t % 10>> \o BMulC(Tail(d), k, t \div 10)

\* d * k for a small natural k
BMul(d, k) == BTrim(BMulC(d, k, 0))

RECURSIVE BMulPow(_, _, _)
\* d * k^e for k <= 5 (four factors at a time)
BMulPow(d, k, e) ==
  IF e = 0 \/ d = <<>> THEN d
  ELSE IF e >= 4 THEN BMulPow(BMul(d, k * k * k * k), k, e - 4)
  ELSE BMulPow(BMul(d, k), k, e - 1)

RECURSIVE BAddC(_, _, _)
BAddC(x, y, c) ==
  IF x = <<>> /\ y = <<>>
  THEN IF c = 0 THEN <<>> ELSE <<c>>
  ELSE LET a == IF x = <<>> THEN 0 ELSE x[1]
           b == IF y = <<>> THEN 0 ELSE y[1]
           t == a + b + c
       IN <<t % 10>> \o BAddC(IF x = <<>> THEN <<>> ELSE Tail(x),
                              IF y = <<>> THEN <<>> ELSE Tail(y), t \div 10)

BAdd(x, y) == BTrim(BAddC(x, y, 0))

RECURSIVE BCmpTop(_, _, _)
BCmpTop(x, y, i) ==
  IF i = 0 THEN 0
  ELSE IF x[i] < y[i] THEN -1
  ELSE IF x[i] > y[i] THEN 1
  ELSE BCmpTop(x, y, i - 1)

\* -1, 0, 1 as x <, =, > y (both trimmed)
BCmp(x, y) ==
  IF Len(x) < Len(y) THEN -1
  ELSE IF Len(x) > Len(y) THEN 1
  ELSE BCmpTop(x, y, Len(x))

RECURSIVE BSubC(_, _, _)
BSubC(x, y, b) ==
  IF x = <<>> THEN <<>>
  ELSE LET s == IF y = <<>> THEN 0 ELSE y[1]
           t == x[1] - s - b
       IN <<IF t < 0 THEN t + 10 ELSE t>>
          \o BSubC(Tail(x), IF y = <<>> THEN <<>> ELSE Tail(y),
                   IF t < 0 THEN 1 ELSE 0)

\* x - y for x >= y
BSub(x, y) == BTrim(BSubC(x, y, 0))

RECURSIVE BDivC(_, _, _, _)
\* long division of d by small k from the most significant digit i down
BDivC(d, k, i, r) ==
  IF i = 0 THEN [q |-> <<>>, r |-> r]
  ELSE LET t    == r * 10 + d[i]
           rest == BDivC(d, k, i - 1, t % k)
       IN [q |-> rest.q \o <<t \div k>>, r |-> rest.r]

\* [q |-> d \div k, r |-> d % k] for a small k > 0
BDivMod(d, k) ==
  LET res == BDivC(d, k, Len(d), 0) IN [q |-> BTrim(res.q), r |-> res.r]

RECURSIVE BDivPow(_, _, _)
\* floor(d / k^e) and whether the division was exact, for k <= 5 (four
\* factors at a time)
BDivPow(d, k, e) ==
  IF e = 0 THEN [q |-> d, exact |-> TRUE]
  ELSE LET m    == IF e >= 4 THEN k * k * k * k ELSE k
           one  == BDivMod(d, m)
           rest == IF one.r = 0 \/ one.q # <<>>
                   THEN BDivPow(one.q, k, IF e >= 4 THEN e - 4 ELSE e - 1)
                   ELSE [q |-> <<>>, exact |-> FALSE]
       IN [q |-> rest.q, exact |-> rest.exact /\ one.r = 0]

RECURSIVE BFromInt(_)
BFromInt(i) == IF i = 0 THEN <<>> ELSE <<i % 10>> \o BFromInt(i \div 10)

(***************************************************************************)
(* JavaScript numbers: NaN, or [neg, n, e2, e5] = (-1)^neg * n * 2^e2 *    *)
(* 5^e5, normalised so that n is coprime to 10 (zero is n = <<>>, e2 = e5  *)
(* = 0, neg = FALSE).                                                      *)
(***************************************************************************)
NaN == [nan |-> TRUE]

Zero == [neg |-> FALSE, n |-> <<>>, e2 |-> 0, e5 |-> 0]

RECURSIVE NNorm(_)
NNorm(x) ==
  IF x.n = <<>> THEN Zero
  ELSE IF x.n[1] % 2 = 0
       THEN NNorm([x EXCEPT !.n = BDivMod(x.n, 2).q, !.e2 = x.e2 + 1])
  ELSE IF x.n[1] = 5
       THEN NNorm([x EXCEPT !.n = BDivMod(x.n, 5).q, !.e5 = x.e5 + 1])
  ELSE x

\* the natural given by little-endian digits d, times 10^e
NDec(d, e) == NNorm([neg |-> FALSE, n |-> BTrim(d), e2 |-> e, e5 |-> e])

NInt(i) == NDec(BFromInt(i), 0)

NNeg(x) == IF x = NaN \/ x.n = <<>> THEN x ELSE [x EXCEPT !.neg = ~x.neg]

\* x * 2^a * 5^b (a, b may be negative: division by a unit multiplier)
NScale(x, a, b) ==
  IF x = NaN \/ x.n = <<>> THEN x ELSE [x EXCEPT !.e2 = x.e2 + a, !.e5 = x.e5 + b]

Min(a, b) == IF a < b THEN a ELSE b

\* the mantissa of x over the common exponents (a, b) <= (x.e2, x.e5)
NMant(x, a, b) == BMulPow(BMulPow(x.n, 2, x.e2 - a), 5, x.e5 - b)

\* -1, 0, 1 as |x| <, =, > |y|
NCmpAbs(x, y) ==
  LET a == Min(x.e2, y.e2)
      b == Min(x.e5, y.e5)
  IN BCmp(NMant(x, a, b), NMant(y, a, b))

\* -1, 0, 1 as x <, =, > y; every comparison with NaN is false in
\* JavaScript, which the callers handle before comparing
NCmp(x, y) ==
  IF x.neg /\ ~y.neg THEN -1
  ELSE IF ~x.neg /\ y.neg THEN 1
  ELSE NCmpAbs(IF x.neg THEN y ELSE x, IF x.neg THEN x ELSE y)

NLt(x, y) == x # NaN /\ y # NaN /\ NCmp(x, y) < 0
NGe(x, y) == x # NaN /\ y # NaN /\ NCmp(x, y) >= 0
NGt(x, y) == x # NaN /\ y # NaN /\ NCmp(x, y) > 0

\* the sum of two signed mantissas over the common exponents (a, b)
NAddMant(xneg, mx, yneg, my, a, b) ==
  NNorm([neg |-> IF xneg = yneg \/ BCmp(mx, my) >= 0 THEN xneg ELSE yneg,
         n   |-> IF xneg = yneg THEN BAdd(mx, my)
                 ELSE IF BCmp(mx, my) >= 0 THEN BSub(mx, my) ELSE BSub(my, mx),
         e2  |-> a, e5 |-> b])

NAddOver(x, y, a, b) == NAddMant(x.neg, NMant(x, a, b), y.neg, NMant(y, a, b), a, b)

\* x + y; NaN is absorbing
NAdd(x, y) ==
  IF x = NaN \/ y = NaN THEN NaN
  ELSE NAddOver(x, y, Min(x.e2, y.e2), Min(x.e5, y.e5))

\* x / y where the result is not rounded to a decimal: the exact fraction
\* num / den with den >= 0.  den = 0 is Infinity (num # 0) or NaN (num = 0),
\* as in JavaScript; a NaN operand gives NaN / 1.
Quotient(x, y) ==
  IF x = NaN \/ y = NaN THEN [num |-> NaN, den |-> NInt(1)]
  ELSE IF y.neg THEN [num |-> NNeg(x), den |-> NNeg(y)]
  ELSE [num |-> x, den |-> y]

Pos(a) == IF a > 0 THEN a ELSE 0

RoundResult(by2, by5) == [up |-> by5.q, tie |-> by2.exact /\ by5.exact]

RoundBy5(by2, p5) == RoundResult(by2, BDivPow(by2.q, 5, p5))

\* floor(num / (2^p2 * 5^p5) + 1/2), and whether nothing was cut off
RoundDiv(num, p2, p5) ==
  RoundBy5(BDivPow(BAdd(BMul(num, 2), BMulPow(BMulPow(<<1>>, 2, p2), 5, p5)), 2, p2 + 1), p5)

\* round(x * 10^f) for x >= 0, half up, and whether x * 10^f is an exact tie
NRoundScaled(x, f) ==
  RoundDiv(BMulPow(BMulPow(x.n, 2, Pos(x.e2 + f)), 5, Pos(x.e5 + f)),
           Pos(-(x.e2 + f)), Pos(-(x.e5 + f)))

(***************************************************************************)
(* Strings                                                                 *)
(***************************************************************************)
DigitChars == <<"0", "1", "2", "3", "4", "5", "6", "7", "8", "9">>

IsDigit(c) == \E i \in 1..10 : DigitChars[i] = c


\* the decimal digits of a natural, most significant first ("0" for zero)
BToStr(d) ==
  IF d = <<>> THEN <<"0">> ELSE [i \in 1..Len(d) |-> DigitChars[d[Len(d) + 1 - i] + 1]]

\* the natural written by a string of digits
BOfStr(s) ==
  BTrim([i \in 1..Len(s) |-> (CHOOSE v \in 1..10 : DigitChars[v] = s[Len(s) + 1 - i]) - 1])

RECURSIVE DigitRun(_, _)
\* the number of digits s holds from position i on
DigitRun(s, i) ==
  IF i <= Len(s) /\ IsDigit(s[i]) THEN 1 + DigitRun(s, i + 1) ELSE 0

RECURSIVE SpaceRun(_, _)
SpaceRun(s, i) ==
  IF i <= Len(s) /\ s[i] = " " THEN 1 + SpaceRun(s, i + 1) ELSE 0

Drop(s, k) == SubSeq(s, k + 1, Len(s))

EndsWith(s, suf) ==
  Len(s) >= Len(suf) /\ SubSeq(s, Len(s) - Len(suf) + 1, Len(s)) = suf

\* String.prototype.slice(0, -k)
SliceEnd(s, k) == SubSeq(s, 1, Len(s) - k)

ToLowerCase(s) ==
  [ k \in 1..Len(s) |->
      CASE s[k] = "K" -> "k" [] s[k] = "M" -> "m" [] s[k] = "G" -> "g" [] s[k] = "T" -> "t"
        [] s[k] = "P" -> "p" [] s[k] = "I" -> "i" [] s[k] = "B" -> "b" [] s[k] = "N" -> "n"
        [] s[k] = "A" -> "a" [] OTHER -> s[k] ]

(***************************************************************************)
(* JavaScript built-ins                                                    *)
(***************************************************************************)
Unsigned(s) == IF Len(s) > 0 /\ s[1] \in {"-", "+"} THEN Tail(s) ELSE s

IsNegative(s) == Len(s) > 0 /\ s[1] = "-"

WithSign(neg, v) == IF neg THEN NNeg(v) ELSE v

\* the digits after a "." that follows the first k1 characters
FractionRun(t, k1) ==
  IF Len(t) > k1 /\ t[k1 + 1] = "." THEN DigitRun(t, k1 + 2) ELSE 0

DecimalOf(t, k1, k2) ==
  IF k1 + k2 = 0 THEN NaN
  ELSE NDec(BOfStr(SubSeq(t, 1, k1) \o SubSeq(t, k1 + 2, k1 + 1 + k2)), -k2)

DecimalFrom(t, k1) == DecimalOf(t, k1, FractionRun(t, k1))

ParseFloatTrimmed(s) == WithSign(IsNegative(s), DecimalFrom(Unsigned(s), DigitRun(Unsigned(s), 1)))

\* parseFloat: leading blanks, a sign, then the longest decimal literal
\* (digits, "." digits); NaN when no digit is found.  Exponent notation
\* and "Infinity" are outside the modelled alphabet.
ParseFloat(str) == ParseFloatTrimmed(Drop(str, SpaceRun(str, 1)))

IntegerOf(t, k) == IF k = 0 THEN NaN ELSE NDec(BOfStr(SubSeq(t, 1, k)), 0)

ParseIntTrimmed(s) == WithSign(IsNegative(s), IntegerOf(Unsigned(s), DigitRun(Unsigned(s), 1)))

\* parseInt(str, 10)
ParseInt(str) == ParseIntTrimmed(Drop(str, SpaceRun(str, 1)))

\* the rounded magnitude: on a tie, up or one below
TieBreak(r, tieUp) == IF r.tie /\ ~tieUp THEN BSub(r.up, <<1>>) ELSE r.up

\* Math.round: to the nearest integer, a tie towards +Infinity
MathRound(x) ==
  IF x = NaN THEN NaN
  ELSE WithSign(x.neg, NDec(TieBreak(NRoundScaled(x, 0), ~x.neg), 0))

\* the digits of the integer x (an integer by construction)
NumToString(x) ==
  IF x = NaN THEN <<"N", "a", "N">>
  ELSE (IF x.neg THEN <<"-">> ELSE <<>>) \o BToStr(NRoundScaled(x, 0).up)

RECURSIVE PadZeros(_, _)
PadZeros(s, n) == IF Len(s) >= n THEN s ELSE PadZeros(<<"0">> \o s, n)

\* the digits d with a "." before the last f
PointBefore(d, f) ==
  IF f = 0 THEN d
  ELSE SubSeq(d, 1, Len(d) - f) \o <<".">> \o SubSeq(d, Len(d) - f + 1, Len(d))

\* Number.prototype.toFixed(f): the nearest decimal with f fraction digits.
\* On an exact decimal tie the double nearest to x decides; tieUp is that
\* outcome.
ToFixed(x, f, tieUp) ==
  IF x = NaN THEN <<"N", "a", "N">>
  ELSE (IF x.neg THEN <<"-">> ELSE <<>>)
       \o PointBefore(PadZeros(BToStr(TieBreak(NRoundScaled(x, f), tieUp)), f + 1), f)

(***************************************************************************)
(* kubernetesService: the unit helpers of getClusterOverview.  A JavaScript *)
(* string is falsy exactly when it is empty.                               *)
(***************************************************************************)
\* a conversion that ignores the suffix
toNanocoresUnitless(cpuStr) == ParseFloat(cpuStr)

\* toNanocores(cpuStr): CPU quantity string to nanocores
toNanocores(cpuStr) ==
  IF cpuStr = <<>> THEN Zero
  ELSE IF EndsWith(cpuStr, <<"m">>) THEN NScale(ParseFloat(SliceEnd(cpuStr, 1)), 6, 6)
  ELSE IF EndsWith(cpuStr, <<"n">>) THEN ParseFloat(SliceEnd(cpuStr, 1))
  ELSE NScale(ParseFloat(cpuStr), 9, 9)

\* toKibibytes(memStr): memory quantity string to kibibytes
toKibibytes(memStr) ==
  IF memStr = <<>> THEN Zero
  ELSE IF EndsWith(memStr, <<"K", "i">>) THEN ParseFloat(SliceEnd(memStr, 2))
  ELSE IF EndsWith(memStr, <<"M", "i">>) THEN NScale(ParseFloat(SliceEnd(memStr, 2)), 10, 0)
  ELSE IF EndsWith(memStr, <<"G", "i">>) THEN NScale(ParseFloat(SliceEnd(memStr, 2)), 20, 0)
  ELSE IF EndsWith(memStr, <<"T", "i">>) THEN NScale(ParseFloat(SliceEnd(memStr, 2)), 30, 0)
  ELSE NScale(ParseFloat(memStr), -10, 0)

(***************************************************************************)
(* formatters (frontend helpers)                                           *)
(***************************************************************************)
MatchAt(memoryValue, n) ==
  [matched |-> TRUE, valueStr |-> SubSeq(memoryValue, 1, n), unit |-> Drop(memoryValue, n)]

MatchLen(k1, k2) == IF k2 > 0 THEN k1 + 1 + k2 ELSE k1

MatchFrom(memoryValue, k1) ==
  IF k1 = 0 THEN [matched |-> FALSE]
  ELSE MatchAt(memoryValue, MatchLen(k1, FractionRun(memoryValue, k1)))

\* memoryValue.match(/^(\d+(?:\.\d+)?)(.*?)$/): the greedy digits, an
\* optional "." with at least one digit, and the rest as the unit
MemoryMatch(memoryValue) == MatchFrom(memoryValue, DigitRun(memoryValue, 1))

\* the switch on the lower-cased unit: bytes *= multiplier
ScaleByUnit(bytes, u) ==
  CASE u = <<"k", "i">> -> NScale(bytes, 10, 0)
    [] u = <<"m", "i">> -> NScale(bytes, 20, 0)
    [] u = <<"g", "i">> -> NScale(bytes, 30, 0)
    [] u = <<"t", "i">> -> NScale(bytes, 40, 0)
    [] u = <<"p", "i">> -> NScale(bytes, 50, 0)
    [] u = <<"k">> -> NScale(bytes, 3, 3)
    [] u = <<"m">> -> NScale(bytes, 6, 6)
    [] u = <<"g">> -> NScale(bytes, 9, 9)
    [] u = <<"t">> -> NScale(bytes, 12, 12)
    [] u = <<"p">> -> NScale(bytes, 15, 15)
    [] OTHER -> bytes

\* switch (unit.toLowerCase())
UnitToBytes(bytes, unit) == ScaleByUnit(bytes, ToLowerCase(unit))

\* let bytes = parseFloat(valueStr), then the switch
MatchBytes(match) == UnitToBytes(ParseFloat(match.valueStr), match.unit)

BytesOfMatch(match) == IF ~match.matched THEN Zero ELSE MatchBytes(match)

\* memoryToBytes(memoryValue)
memoryToBytes(memoryValue) == BytesOfMatch(MemoryMatch(memoryValue))

\* cpuValue.replace(/n$/i, '')
StripNanoSuffix(cpuValue) ==
  IF EndsWith(cpuValue, <<"n">>) \/ EndsWith(cpuValue, <<"N">>)
  THEN SliceEnd(cpuValue, 1) ELSE cpuValue

\* a rendering that never switches to cores
FormatAlwaysMillicores(millicores, tieUp) == ToFixed(millicores, 2, tieUp) \o <<"m">>

\* millicores < 1000 ? `${millicores.toFixed(2)}m` : (millicores / 1000).toFixed(2)
FormatMillicores(millicores, tieUp) ==
  IF NLt(millicores, NInt(1000)) THEN ToFixed(millicores, 2, tieUp) \o <<"m">>
  ELSE ToFixed(NScale(millicores, -3, -3), 2, tieUp)

FormatNanocores(nanocores, tieUp) ==
  IF nanocores = NaN THEN <<"0">>
  ELSE FormatMillicores(NScale(nanocores, -6, -6), tieUp)

\* parseInt(cpuValue.replace(/n$/i, ''), 10)
parseCPU(cpuValue) == ParseInt(StripNanoSuffix(cpuValue))

\* formatCPU(cpuValue); tieUp is the outcome of toFixed on an exact tie
formatCPU(cpuValue, tieUp) == FormatNanocores(parseCPU(cpuValue), tieUp)

\* a calculator that caps its result at 100
PercentageCapped(used, total) ==
  IF total = Zero THEN Quotient(Zero, NInt(1))
  ELSE IF NGt(used, total) THEN Quotient(NInt(100), NInt(1))
  ELSE Quotient(NScale(used, 2, 2), total)

\* if (total === 0) return 0; return (used / total) * 100
Percentage(used, total) ==
  IF total = Zero THEN Quotient(Zero, NInt(1))
  ELSE Quotient(NScale(used, 2, 2), total)

\* getCPUPercentage(cpuValue, totalCores): nanocores against whole cores
getCPUPercentage(cpuValue, totalCores) ==
  IF parseCPU(cpuValue) = NaN THEN Quotient(Zero, NInt(1))
  ELSE Percentage(NScale(parseCPU(cpuValue), -9, -9), totalCores)

\* getMemoryPercentage(memoryValue, totalMemory)
getMemoryPercentage(memoryValue, totalMemory) ==
  Percentage(memoryToBytes(memoryValue), memoryToBytes(totalMemory))

\* thresholds in powers of 1000
Pow1000(k) == NScale(NInt(1), 3 * k, 3 * k)

\* 1024 ** k
Pow1024(k) == NScale(NInt(1), 10 * k, 0)

\* the unit ladder of formatMemory: TiB, GiB, MiB, KiB, B
FormatBytes(bytes, tieUp) ==
  IF NGe(bytes, Pow1024(4))
  THEN ToFixed(NScale(bytes, -40, 0), 2, tieUp) \o <<" ", "T", "i", "B">>
  ELSE IF NGe(bytes, Pow1024(3))
  THEN ToFixed(NScale(bytes, -30, 0), 2, tieUp) \o <<" ", "G", "i", "B">>
  ELSE IF NGe(bytes, Pow1024(2))
  THEN ToFixed(NScale(bytes, -20, 0), 2, tieUp) \o <<" ", "M", "i", "B">>
  ELSE IF NGe(bytes, Pow1024(1))
  THEN ToFixed(NScale(bytes, -10, 0), 2, tieUp) \o <<" ", "K", "i", "B">>
  ELSE ToFixed(bytes, 0, tieUp) \o <<" ", "B">>

FormatMatch(match, tieUp) ==
  IF ~match.matched THEN <<"0", " ", "B">> ELSE FormatBytes(MatchBytes(match), tieUp)

\* formatMemory(memoryValue); tieUp is the outcome of toFixed on an exact tie
formatMemory(memoryValue, tieUp) == FormatMatch(MemoryMatch(memoryValue), tieUp)

(***************************************************************************)
(* The cluster: what the control plane and the metrics add-on answer.      *)
(* A field the API omits is the empty string (both are falsy in            *)
(* JavaScript).  null is the one-element sequence <<"null">>, undefined    *)
(* <<"undefined">>: neither is a string of characters.                     *)
(***************************************************************************)
Null == <<"null">>

Undefined == <<"undefined">>

MaxNodes == 2

MaxBuilds == 2

\* node.status.capacity of the two node forms (whole cores and Ki;
\* millicores and Gi, no pod capacity reported)
NodeShapes ==
  { [hasCapacity |-> TRUE, cpu |-> <<"2">>,
      memory |-> <<"4", "0", "9", "6", "0", "0", "0", "K", "i">>, pods |-> <<"1", "1", "0">>,
     ready |-> TRUE],
    [hasCapacity |-> TRUE, cpu |-> <<"3", "9", "0", "0", "m">>, memory |-> <<"8", "G", "i">>,
        pods |-> <<>>,
     ready |-> FALSE] }

\* metrics.k8s.io node usage samples
BusyUsage == [cpu |-> <<"5", "5", "0", "0", "0", "0", "0", "0", "n">>,
    memory |-> <<"2", "0", "6", "8", "3", "5", "5", "K", "i">>]

NodeMetricsItems(nodes, profile) ==
  CASE profile = "busy" -> [i \in 1..Len(nodes) |-> [name |-> i, usage |-> BusyUsage]]
    [] profile = "idle" -> [i \in 1..Len(nodes) |-> [name |-> i, usage |-> [cpu |-> <<"0">>, memory |-> <<"0">>]]]
    [] profile = "partial" ->
         [i \in 1..(Len(nodes) - 1) |-> [name |-> i + 1, usage |-> BusyUsage]]
    [] OTHER -> <<>>

\* the workloads of the cluster: pods (with the pod-metrics sample of each
\* container, when the add-on has one), deployments, stateful sets, events,
\* persistent volumes
EmptyWorkload ==
  [ namespaces   |-> <<"default">>,
    pods         |-> <<>>,
    deployments  |-> <<>>,
    statefulsets |-> <<>>,
    events       |-> <<>>,
    pvs          |-> <<>> ]

TypicalWorkload ==
  [ namespaces   |-> <<"default", "kube-system">>,
    pods         |->
      << [ namespace |-> "default", nodeName |-> 1, phase |-> "Running",
           containers |->
             << [requests |-> [present |-> TRUE, cpu |-> <<"5", "0", "0", "m">>, memory |-> <<"1", "2", "8", "M", "i">>],
                 limits   |-> [present |-> TRUE, cpu |-> <<"1">>, memory |-> <<"1", "G", "i">>]],
                [requests |-> [present |-> FALSE, cpu |-> <<>>, memory |-> <<>>],
                 limits   |-> [present |-> TRUE, cpu |-> <<"5", "0", "0", "m">>, memory |-> <<>>]],
                [requests |-> [present |-> FALSE, cpu |-> <<>>, memory |-> <<>>],
                 limits   |-> [present |-> FALSE, cpu |-> <<>>, memory |-> <<>>]] >>,
           usage |-> << [cpu |-> <<"1", "2", "0", "0", "0", "0", "0", "0", "n">>, memory |-> <<"6", "5", "5", "3", "6", "K", "i">>],
                        [cpu |-> <<"3", "m">>, memory |-> <<"2", "0", "M", "i">>] >> ],
         [ namespace |-> "kube-system", nodeName |-> 1, phase |-> "Pending",
           containers |->
             << [requests |-> [present |-> TRUE, cpu |-> <<"2", "5", "0", "m">>, memory |-> <<>>],
                 limits |-> [present |-> FALSE, cpu |-> <<>>, memory |-> <<>>]] >>,
           usage |-> << [cpu |-> <<"1", "5", "0", "0", "0", "0", "0", "n">>, memory |-> <<"1", "G", "i">>] >> ] >>,
    deployments  |->
      << [namespace |-> "default", replicas |-> 2, readyReplicas |-> 2],
         [namespace |-> "default", replicas |-> 0, readyReplicas |-> 0],
         [namespace |-> "kube-system", replicas |-> 1, readyReplicas |-> 0] >>,
    statefulsets |-> << [namespace |-> "default"] >>,
    events       |->
      << [type |-> "Warning", reason |-> "BackOff", time |-> "recent"],
         [type |-> "Normal", reason |-> "Failed", time |-> "recent"],
         [type |-> "Warning", reason |-> "FailedScheduling", time |-> "recent"],
         [type |-> "Warning", reason |-> "Unhealthy", time |-> "old"],
         [type |-> "Normal", reason |-> "Pulled", time |-> "none"] >>,
    pvs          |->
      << [storage |-> <<"1", "0", "G", "i">>, phase |-> "Bound"],
         [storage |-> <<"5", "G", "i">>, phase |-> "Available"],
         [storage |-> <<>>, phase |-> "Bound"] >> ]

\* the four-node cluster of the documentation: 2 cores and 4096000Ki per
\* node, every node sampled
DocumentedCluster ==
  [ nodes   |-> [ i \in 1..4 |->
                    [hasCapacity |-> TRUE,
                     cpu |-> <<"2", "0", "0", "0", "0", "0", "0", "0", "0", "0", "n">>,
                     memory |-> <<"4", "0", "9", "6", "0", "0", "0", "K", "i">>,
                     pods |-> <<"1", "1", "0">>, ready |-> TRUE] ],
    metrics |-> "busy",
    work    |-> EmptyWorkload ]

\* the add-on is down; up with a busy sample for every node; up with only
\* zero usage reported; up but the first node not scraped yet
Clusters ==
  { [nodes |-> ns, metrics |-> mp, work |-> w] :
      ns \in UNION { [1..n -> NodeShapes] : n \in 1..MaxNodes },
      mp \in {"down", "busy", "idle", "partial"},
      w \in {EmptyWorkload, TypicalWorkload} }
    \cup {DocumentedCluster}


(***************************************************************************)
(* kubernetesService.getClusterOverview: the aggregation                   *)
(***************************************************************************)
\* x || dflt on strings
OrElse(x, dflt) == IF x = <<>> THEN dflt ELSE x

\* an accumulation that stops after the first item
FirstOnly(values) == IF values = <<>> THEN Zero ELSE values[1]

\* an accumulation that assigns instead of adding
LastOnly(values) == IF values = <<>> THEN Zero ELSE values[Len(values)]

RECURSIVE SumFrom(_, _, _)
SumFrom(acc, values, i) ==
  IF i > Len(values) THEN acc ELSE SumFrom(NAdd(acc, values[i]), values, i + 1)

\* let sum = 0; items.forEach(item => { sum += value of item }), over the
\* values of the items in order
Sum(values) == SumFrom(Zero, values, 1)

\* items.filter(predicate).length, over the predicate's outcome per item
Count(flags) == Cardinality({i \in 1..Len(flags) : flags[i]})

\* only the first container of every pod
FirstContainers(pods, i) == [k \in 1..Len(pods) |-> pods[k].containers[1]]

\* the containers of every pod, in order
RECURSIVE AllContainers(_, _)
AllContainers(pods, i) ==
  IF i > Len(pods) THEN <<>> ELSE pods[i].containers \o AllContainers(pods, i + 1)

NodeCpuCapacity(node) ==
  IF node.hasCapacity THEN toNanocores(OrElse(node.cpu, <<"0">>)) ELSE Zero

NodeMemoryCapacity(node) ==
  IF node.hasCapacity THEN toKibibytes(OrElse(node.memory, <<"0">>)) ELSE Zero

UsageCpu(metric) == toNanocores(OrElse(metric.usage.cpu, <<"0">>))

UsageMemory(metric) == toKibibytes(OrElse(metric.usage.memory, <<"0">>))

\* if (container.resources?.requests) { ... toNanocores(requests.cpu || '0') },
\* and the same for limits
ResourcesCpu(r) == IF r.present THEN toNanocores(OrElse(r.cpu, <<"0">>)) ELSE Zero

ResourcesMemory(r) == IF r.present THEN toKibibytes(OrElse(r.memory, <<"0">>)) ELSE Zero

\* parseInt(node.status?.capacity?.pods || '110')
NodePodCapacity(node) ==
  ParseInt(OrElse(IF node.hasCapacity THEN node.pods ELSE <<>>, <<"1", "1", "0">>))

\* every declared replica is ready, none declared included
AllReplicasReady(d) == d.readyReplicas = d.replicas

\* (d.status?.readyReplicas || 0) === (d.spec?.replicas || 0) && replicas > 0
DeploymentAvailable(d) == d.readyReplicas = d.replicas /\ d.replicas > 0

\* eventTime && new Date(eventTime) > oneHourAgo
EventRecent(e) == e.time = "recent"

EventIsWarning(e) == EventRecent(e) /\ e.type = "Warning"

EventIsError(e) ==
  EventRecent(e) /\ (e.type = "Error" \/ e.reason = "Failed" \/ e.reason = "FailedScheduling")

\* what an optional read left behind: the items, or null after its catch
Items(items) == [isNull |-> FALSE, items |-> items]

NullItems == [isNull |-> TRUE, items |-> <<>>]

\* the sums and counts computed between the metrics read and the volume
\* read; nodeMetrics is NullItems when the metrics read failed
Aggregate(nodes, pods, namespaces, deployments, events, nodeMetrics) ==
  LET containers == AllContainers(pods, 1)
      samples    == IF nodeMetrics.isNull THEN <<>> ELSE nodeMetrics.items
  IN [ nodeCount             |-> Len(nodes),
       readyNodes            |-> Count([i \in 1..Len(nodes) |-> nodes[i].ready]),
       totalCpuNanocores     |-> Sum([i \in 1..Len(nodes) |-> NodeCpuCapacity(nodes[i])]),
       totalMemoryKi         |-> Sum([i \in 1..Len(nodes) |-> NodeMemoryCapacity(nodes[i])]),
       usedCpuNanocores      |-> Sum([i \in 1..Len(samples) |-> UsageCpu(samples[i])]),
       usedMemoryKi          |-> Sum([i \in 1..Len(samples) |-> UsageMemory(samples[i])]),
       requestedCpuNanocores |->
         Sum([i \in 1..Len(containers) |-> ResourcesCpu(containers[i].requests)]),
       requestedMemoryKi     |->
         Sum([i \in 1..Len(containers) |-> ResourcesMemory(containers[i].requests)]),
       limitCpuNanocores     |->
         Sum([i \in 1..Len(containers) |-> ResourcesCpu(containers[i].limits)]),
       limitMemoryKi         |->
         Sum([i \in 1..Len(containers) |-> ResourcesMemory(containers[i].limits)]),
       totalPodCapacity      |-> Sum([i \in 1..Len(nodes) |-> NodePodCapacity(nodes[i])]),
       podCount              |-> Len(pods),
       runningPods           |-> Count([i \in 1..Len(pods) |-> pods[i].phase = "Running"]),
       pendingPods           |-> Count([i \in 1..Len(pods) |-> pods[i].phase = "Pending"]),
       failedPods            |-> Count([i \in 1..Len(pods) |-> pods[i].phase = "Failed"]),
       namespaceCount        |-> Len(namespaces),
       totalDeployments      |-> Len(deployments),
       availableDeployments  |->
         Count([i \in 1..Len(deployments) |-> DeploymentAvailable(deployments[i])]),
       warnings              |-> Count([i \in 1..Len(events) |-> EventIsWarning(events[i])]),
       errors                |-> Count([i \in 1..Len(events) |-> EventIsError(events[i])]) ]

\* `${Math.round(x)}n` and `${Math.round(x)}Ki`
Rounded(x, unit) == NumToString(MathRound(x)) \o unit

\* used: sum > 0 ? `${Math.round(sum)}<unit>` : null
UsedFigure(sum, unit) == IF NGt(sum, Zero) THEN Rounded(sum, unit) ELSE Null

\* if (pv.spec?.capacity?.storage) { storageTotalKi += capacityKi; ... }
PvCapacity(pv) == IF pv.storage # <<>> THEN toKibibytes(pv.storage) ELSE Zero

PvBoundCapacity(pv) ==
  IF pv.storage # <<>> /\ pv.phase = "Bound" THEN toKibibytes(pv.storage) ELSE Zero

\* the storage block; pvs is NullItems when listPersistentVolume failed (the
\* catch leaves pvCount = 0)
StorageOf(pvs) ==
  LET items == IF pvs.isNull THEN <<>> ELSE pvs.items
  IN [ pvCount        |-> Len(items),
       storageTotalKi |-> Sum([i \in 1..Len(items) |-> PvCapacity(items[i])]),
       storageBoundKi |-> Sum([i \in 1..Len(items) |-> PvBoundCapacity(items[i])]) ]

\* ...(pvCount > 0 && { storage: {...} })
StorageSpread(st) ==
  IF st.pvCount > 0
  THEN [ storage |-> [ totalCapacity |-> Rounded(st.storageTotalKi, <<"K", "i">>),
                       boundCapacity |-> Rounded(st.storageBoundKi, <<"K", "i">>),
                       volumeCount   |-> st.pvCount ] ]
  ELSE <<>>

\* the object getClusterOverview returns
Rollup(a, st) ==
  [ nodes |->
      [ total  |-> a.nodeCount,
        ready  |-> a.readyNodes,
        cpu    |-> [ used     |-> UsedFigure(a.usedCpuNanocores, <<"n">>),
                     total    |-> Rounded(a.totalCpuNanocores, <<"n">>),
                     requests |-> Rounded(a.requestedCpuNanocores, <<"n">>),
                     limits   |-> Rounded(a.limitCpuNanocores, <<"n">>) ],
        memory |-> [ used     |-> UsedFigure(a.usedMemoryKi, <<"K", "i">>),
                     total    |-> Rounded(a.totalMemoryKi, <<"K", "i">>),
                     requests |-> Rounded(a.requestedMemoryKi, <<"K", "i">>),
                     limits   |-> Rounded(a.limitMemoryKi, <<"K", "i">>) ] ],
    pods |-> [ total    |-> a.podCount,
               running  |-> a.runningPods,
               pending  |-> a.pendingPods,
               failed   |-> a.failedPods,
               capacity |-> a.totalPodCapacity ],
    namespaces  |-> [total |-> a.namespaceCount],
    deployments |-> [total |-> a.totalDeployments, available |-> a.availableDeployments],
    events      |-> [warnings |-> a.warnings, errors |-> a.errors] ]
  @@ StorageSpread(st)


(***************************************************************************)
(* kubernetesService.getNodes and getNamespaces                            *)
(***************************************************************************)
\* nodeMetrics.items.find(m => m.metadata.name === name)?.usage
FindUsage(items, name) ==
  LET hits == {i \in 1..Len(items) : items[i].name = name}
  IN IF hits = {} THEN [cpu |-> <<>>, memory |-> <<>>]
     ELSE items[CHOOSE i \in hits : \A j \in hits : i <= j].usage

\* one entry of the list getNodes returns
NodeEntry(name, node, items, pods) ==
  LET usage == FindUsage(items, name)
      cap   == IF node.hasCapacity THEN node ELSE [cpu |-> <<>>, memory |-> <<>>, pods |-> <<>>]
  IN [ name           |-> name,
       cpuUsage       |-> OrElse(usage.cpu, <<"N", "/", "A">>),
       memoryUsage    |-> OrElse(usage.memory, <<"N", "/", "A">>),
       cpuCapacity    |-> IF cap.cpu # <<>>
                          THEN NumToString(NScale(ParseFloat(cap.cpu), 9, 9)) \o <<"n">>
                          ELSE Undefined,
       memoryCapacity |-> OrElse(cap.memory, Undefined),
       pods           |-> Count([i \in 1..Len(pods) |-> pods[i].nodeName = name]),
       podCapacity    |-> IF cap.pods # <<>> THEN ParseInt(cap.pods) ELSE [undefined |-> TRUE] ]

NodesBody(nodes, items, pods) ==
  [i \in 1..Len(nodes) |-> NodeEntry(i, nodes[i], items, pods)]

\* the inline CPU conversion of getNamespaces
NsCpuOf(u) ==
  IF u.cpu = <<>> THEN Zero
  ELSE IF EndsWith(u.cpu, <<"n">>) THEN ParseFloat(SliceEnd(u.cpu, 1))
  ELSE IF EndsWith(u.cpu, <<"m">>) THEN NScale(ParseFloat(SliceEnd(u.cpu, 1)), 6, 6)
  ELSE NScale(ParseFloat(u.cpu), 9, 9)

\* the inline memory conversion of getNamespaces
NsMemoryOf(u) ==
  IF u.memory = <<>> THEN Zero
  ELSE IF EndsWith(u.memory, <<"K", "i">>) THEN ParseFloat(SliceEnd(u.memory, 2))
  ELSE IF EndsWith(u.memory, <<"M", "i">>) THEN NScale(ParseFloat(SliceEnd(u.memory, 2)), 10, 0)
  ELSE IF EndsWith(u.memory, <<"G", "i">>) THEN NScale(ParseFloat(SliceEnd(u.memory, 2)), 20, 0)
  ELSE Zero

RECURSIVE AllUsage(_, _)
\* the container samples of the pod metrics, in order
AllUsage(podMetrics, i) ==
  IF i > Len(podMetrics) THEN <<>> ELSE podMetrics[i].usage \o AllUsage(podMetrics, i + 1)

InNamespace(items, ns) == SelectSeq(items, LAMBDA x : x.namespace = ns)

\* one entry of the list getNamespaces returns; podMetrics are the pods
\* the add-on has a sample for
NamespaceEntry(ns, work) ==
  LET nsPodMetrics == InNamespace(work.pods, ns)
      samples      == AllUsage(nsPodMetrics, 1)
  IN [ name         |-> ns,
       pods         |-> Len(InNamespace(work.pods, ns)),
       deployments  |-> Len(InNamespace(work.deployments, ns)),
       statefulsets |-> Len(InNamespace(work.statefulsets, ns)),
       cpuUsage     |-> IF Len(nsPodMetrics) > 0
                        THEN Rounded(Sum([i \in 1..Len(samples) |-> NsCpuOf(samples[i])]),
                            <<"n">>) ELSE <<"0", "n">>,
       memoryUsage  |-> IF Len(nsPodMetrics) > 0
                        THEN Rounded(Sum([i \in 1..Len(samples) |-> NsMemoryOf(samples[i])]),
                            <<"K", "i">>) ELSE <<"0", "K", "i">> ]

\* parseCpu of the getNamespaces revision that reads the first container
parseCpu(cpuStr) ==
  IF EndsWith(cpuStr, <<"m">>) THEN ParseFloat(SliceEnd(cpuStr, 1))
  ELSE NScale(ParseFloat(cpuStr), 3, 3)

\* parseMem of the same revision: bytes
parseMem(memStr) ==
  IF EndsWith(memStr, <<"K", "i">>) THEN NScale(ParseFloat(SliceEnd(memStr, 2)), 10, 0)
  ELSE IF EndsWith(memStr, <<"M", "i">>) THEN NScale(ParseFloat(SliceEnd(memStr, 2)), 20, 0)
  ELSE IF EndsWith(memStr, <<"G", "i">>) THEN NScale(ParseFloat(SliceEnd(memStr, 2)), 30, 0)
  ELSE ParseFloat(memStr)

\* one entry of the list that revision returns: reduce over
\* m.containers[0] of each pod-metrics sample of the namespace; the sums are
\* whole millicores and binary fractions of a Mi, on which toFixed is exact
FirstContainerEntry(ns, work) ==
  [ name         |-> ns,
    pods         |-> Len(InNamespace(work.pods, ns)),
    deployments  |-> Len(InNamespace(work.deployments, ns)),
    statefulsets |-> Len(InNamespace(work.statefulsets, ns)),
    cpu          |-> ToFixed(Sum([i \in 1..Len(InNamespace(work.pods, ns)) |->
                       IF InNamespace(work.pods, ns)[i].usage # <<>>
                          /\ InNamespace(work.pods, ns)[i].usage[1].cpu # <<>>
                       THEN parseCpu(InNamespace(work.pods, ns)[i].usage[1].cpu)
                       ELSE Zero]), 2, TRUE) \o <<"m">>,
    memory       |-> ToFixed(NScale(Sum([i \in 1..Len(InNamespace(work.pods, ns)) |->
                       IF InNamespace(work.pods, ns)[i].usage # <<>>
                          /\ InNamespace(work.pods, ns)[i].usage[1].memory # <<>>
                       THEN parseMem(InNamespace(work.pods, ns)[i].usage[1].memory)
                       ELSE Zero]), -20, 0), 2, TRUE) \o <<"M", "i">> ]

\* the answer of getNamespaces in either revision of the service
getNamespaces(work, revision) ==
  IF revision = "all containers"
  THEN [i \in 1..Len(work.namespaces) |-> NamespaceEntry(work.namespaces[i], work)]
  ELSE [i \in 1..Len(work.namespaces) |-> FirstContainerEntry(work.namespaces[i], work)]

(***************************************************************************)
(* The dashboard: the bars of Nodes.tsx and Overview.tsx.  A bar width is  *)
(* a fraction (Quotient); the pages render `${width}%`.                    *)
(***************************************************************************)
\* Math.min(percent, 100); NaN stays NaN
MinHundred(q) ==
  IF q.num # NaN /\ NGt(q.num, NScale(q.den, 2, 2)) THEN Quotient(NInt(100), NInt(1))
  ELSE q

\* the CPU bar and the memory bar of each node card, in order
NodeBars(body) ==
  [ k \in 1..(2 * Len(body)) |->
      LET node    == body[(k + 1) \div 2]
          hasCaps == node.cpuCapacity # Undefined /\ node.memoryCapacity # Undefined
      IN IF k % 2 = 1
         THEN MinHundred(getCPUPercentage(node.cpuUsage,
                IF hasCaps
                THEN NScale(ParseFloat(StripNanoSuffix(node.cpuCapacity)), -9, -9)
                ELSE NInt(2)))
         ELSE MinHundred(getMemoryPercentage(node.memoryUsage,
                IF hasCaps THEN node.memoryCapacity ELSE <<"4", "G", "i">>)) ]

RECURSIVE BToInt(_)
BToInt(d) == IF d = <<>> THEN 0 ELSE d[1] + 10 * BToInt(Tail(d))

\* Math.round of a fraction q >= 0 whose denominator is small
RoundQuotient(q) ==
  IF q.num = NaN \/ q.den = Zero THEN q
  ELSE Quotient(
         NDec(BDivMod(BAdd(BMul(NMant(q.num, Min(q.num.e2, q.den.e2), Min(q.num.e5, q.den.e5)), 2),
                           NMant(q.den, Min(q.num.e2, q.den.e2), Min(q.num.e5, q.den.e5))),
                      2 * BToInt(NMant(q.den, Min(q.num.e2, q.den.e2),
                                       Min(q.num.e5, q.den.e5)))).q, 0),
         NInt(1))

\* x && y ? (x / y) * 100 : 0 on numbers
Share(x, y) ==
  IF x \in {Zero, NaN} \/ y \in {Zero, NaN} THEN Quotient(Zero, NInt(1))
  ELSE Quotient(NScale(x, 2, 2), y)

\* a && b ? (a / b) * 100 : 0 on the strings of the rollup: the division
\* converts each operand with ToNumber, which is NaN unless the whole string
\* is a number
StringShare(a, b) ==
  IF a \in {Null, <<>>} \/ b \in {Null, <<>>} THEN Quotient(Zero, NInt(1))
  ELSE Quotient(IF DigitRun(a, 1) = Len(a) THEN NScale(ParseFloat(a), 2, 2) ELSE NaN,
                IF DigitRun(b, 1) = Len(b) THEN ParseFloat(b) ELSE NaN)

\* the widths Overview.tsx renders: CPU used, requests, limits; memory
\* used, requests, limits; the pod gauge.  When nodes.cpu.used is falsy the
\* page substitutes its placeholder figures (45/100/30/80 and 62/100/48/85).
OverviewBars(body) ==
  IF body.nodes.cpu.used = Null
  THEN << RoundQuotient(Share(NInt(45), NInt(100))),
          Share(NInt(30), NInt(100)), Share(NInt(80), NInt(100)),
          RoundQuotient(Share(NInt(62), NInt(100))),
          Share(NInt(48), NInt(100)), Share(NInt(85), NInt(100)),
          RoundQuotient(Share(NInt(body.pods.total),
                              IF body.pods.capacity \in {Zero, NaN} THEN NInt(110)
                              ELSE body.pods.capacity)) >>
  ELSE << RoundQuotient(StringShare(body.nodes.cpu.used, body.nodes.cpu.total)),
          StringShare(body.nodes.cpu.requests, body.nodes.cpu.total),
          StringShare(body.nodes.cpu.limits, body.nodes.cpu.total),
          RoundQuotient(StringShare(body.nodes.memory.used, body.nodes.memory.total)),
          StringShare(body.nodes.memory.requests, body.nodes.memory.total),
          StringShare(body.nodes.memory.limits, body.nodes.memory.total),
          RoundQuotient(Share(NInt(body.pods.total), body.pods.capacity)) >>

(***************************************************************************)
(* State                                                                   *)
(***************************************************************************)
VARIABLES
  cluster,       \* the cluster the session is connected to
  pc,            \* where the request in progress stands
  req,           \* the endpoint being served
  resp,          \* getClusterOverview: what each parallel read has answered
  agg,           \* getClusterOverview: the sums, once aggregated
  http,          \* the response sent for the request
  faults,        \* history: the reads of this build that were rejected
  prev,          \* history: the previous overview that was served, or the
                 \* AI configuration that was last accepted
  requests,      \* the number of requests served
  input,         \* the quantity string handed to a helper
  call,          \* the helper applied to it and what it returned
  session,       \* req.session: kubeconfig, aiProvider, aiApiKey, aiModel
  messages,      \* AIAssistant: the message list
  isTyping,      \* AIAssistant: the typing indicator
  sends          \* AIAssistant: the handleSend calls awaiting their response

\* the state of the AI assistant page
chat == <<messages, isTyping, sends>>

vars == <<cluster, pc, req, resp, agg, http, faults, prev, requests, input, call,
          session, messages, isTyping, sends>>

\* undefined, where the code only tests a string for truthiness
Unset == ""

\* the session once POST /api/connect has stored a kubeconfig
ConnectedSession ==
  [kubeconfig |-> "kubeconfig", aiProvider |-> Unset, aiApiKey |-> Unset, aiModel |-> Unset]

\* const initialMessages: the greeting, id 1
initialMessages == <<[id |-> 1, role |-> "assistant", content |-> <<"greeting">>]>>

Reads == {"nodes", "pods", "namespaces", "deployments", "events"}

RequiredReads == Reads \ {"events"}

Pending == [state |-> "pending"]

Answered(items) == [state |-> "ok", items |-> items]

NoResponse == [status |-> 0]

NoAggregate == [none |-> TRUE]

NoCall == [fn |-> "none"]

\* a string handed to a helper as it is (literal and suffix record how a
\* generated quantity was written; there is none here)
Verbatim(s) == [text |-> s, literal |-> <<>>, suffix |-> <<>>]

\* res.status(500).json({ error: message, details: error.message })
Failure(message) ==
  [status |-> 500, body |-> [error |-> message, details |-> "rejected"]]

Success(body) == [status |-> 200, body |-> body]

\* what the control plane holds for each list call
ItemsOf(r) ==
  CASE r = "nodes" -> cluster.nodes
    [] r = "pods" -> cluster.work.pods
    [] r = "namespaces" -> cluster.work.namespaces
    [] r = "deployments" -> cluster.work.deployments
    [] r = "events" -> cluster.work.events

MetricsUp == cluster.metrics # "down"

\* a list in one of the orders it may be served in
Reordered(items, order) ==
  CASE order = "reversed" -> [k \in 1..Len(items) |-> items[Len(items) + 1 - k]]
    [] order = "rotated" -> [k \in 1..Len(items) |-> items[(k % Len(items)) + 1]]
    [] OTHER -> items

ListOrders(items) == { Reordered(items, o) : o \in {"listed", "reversed", "rotated"} }

\* what a list call may answer: the nodes in any of the orders; the pods in
\* any of the orders, the containers of every pod reordered likewise
Listings(r) ==
  CASE r = "nodes" -> ListOrders(ItemsOf(r))
    [] r = "pods" ->
         { [k \in 1..Len(ItemsOf(r)) |->
              [Reordered(ItemsOf(r), o)[k] EXCEPT
                 !.containers = Reordered(Reordered(ItemsOf(r), o)[k].containers, o)]] :
             o \in {"listed", "reversed", "rotated"} }
    [] OTHER -> {ItemsOf(r)}

\* an events fallback that reports a warning of its own
EventsFallbackWithWarning == <<[type |-> "Warning", reason |-> "BackOff", time |-> "recent"]>>

\* .catch(() => ({ body: { items: [] } })) on the events read
EventsFallback == <<>>

\* settles with the first read that resolves
AnyAnswered(rs) == \E r \in Reads : rs[r].state = "ok"

AllAnswered(rs) == \A r \in Reads : rs[r].state = "ok"

ServiceIdle ==
  /\ pc = "idle"
  /\ req = "none"
  /\ resp = [r \in Reads |-> Pending]
  /\ agg = NoAggregate
  /\ http = NoResponse
  /\ faults = {}
  /\ prev = [seen |-> FALSE]
  /\ requests = 0
  /\ messages = initialMessages
  /\ isTyping = FALSE
  /\ sends = {}

Init ==
  /\ cluster \in Clusters
  /\ ServiceIdle
  /\ session = ConnectedSession
  /\ input = Verbatim(<<>>)
  /\ call = NoCall

(***************************************************************************)
(* GET /api/overview -> getClusterOverview                                 *)
(***************************************************************************)
\* the handler is entered and the five list calls are issued
StartOverview ==
  /\ pc = "idle"
  /\ requests < MaxBuilds
  /\ pc' = "reads"
  /\ req' = "overview"
  /\ requests' = requests + 1
  /\ UNCHANGED <<session, chat, cluster, resp, agg, http, faults, prev, input, call>>

\* one of the list calls resolves, its items in the order the API server
\* lists them; Promise.all resolves with the last one
ReadResolve(r) ==
  /\ pc = "reads"
  /\ resp[r] = Pending
  /\ \E items \in Listings(r) :
       LET rs == [resp EXCEPT ![r] = Answered(items)]
       IN /\ resp' = rs
          /\ pc' = IF AllAnswered(rs) THEN "metrics" ELSE "reads"
  /\ UNCHANGED <<session, chat, cluster, req, agg, http, faults, prev, requests, input, call>>

\* a required list call rejects: Promise.all rejects, the catch block
\* rethrows and the route answers 500
RequiredReadReject(r) ==
  /\ pc = "reads"
  /\ r \in RequiredReads
  /\ resp[r] = Pending
  /\ pc' = "done"
  /\ resp' = [x \in Reads |-> Pending]
  /\ http' = Failure("Failed to fetch cluster overview")
  /\ faults' = faults \cup {r}
  /\ UNCHANGED <<session, chat, cluster, req, agg, prev, requests, input, call>>

\* listEventForAllNamespaces rejects: .catch(() => ({ body: { items: [] } }))
EventsReadReject ==
  /\ pc = "reads"
  /\ resp["events"] = Pending
  /\ LET rs == [resp EXCEPT !["events"] = Answered(EventsFallback)]
     IN /\ resp' = rs
        /\ pc' = IF AllAnswered(rs) THEN "metrics" ELSE "reads"
  /\ faults' = faults \cup {"events"}
  /\ UNCHANGED <<session, chat, cluster, req, agg, http, prev, requests, input, call>>

AggregateWith(nodeMetrics) ==
  Aggregate(resp["nodes"].items, resp["pods"].items, resp["namespaces"].items,
            resp["deployments"].items, resp["events"].items, nodeMetrics)

\* metrics.getNodeMetrics() resolves, its samples in any order, then the
\* sums are computed
MetricsResolve ==
  /\ pc = "metrics"
  /\ MetricsUp
  /\ \E samples \in ListOrders(NodeMetricsItems(cluster.nodes, cluster.metrics)) :
       agg' = AggregateWith(Items(samples))
  /\ pc' = "pvs"
  /\ UNCHANGED <<session, chat, cluster, req, resp, http, faults, prev, requests, input, call>>

\* metrics.getNodeMetrics() rejects: nodeMetrics = null
MetricsReject ==
  /\ pc = "metrics"
  /\ ~MetricsUp
  /\ agg' = AggregateWith(NullItems)
  /\ pc' = "pvs"
  /\ faults' = faults \cup {"metrics"}
  /\ UNCHANGED <<session, chat, cluster, req, resp, http, prev, requests, input, call>>

\* listPersistentVolume resolves and the rollup is returned
VolumesResolve ==
  /\ pc = "pvs"
  /\ http' = Success(Rollup(agg, StorageOf(Items(cluster.work.pvs))))
  /\ pc' = "done"
  /\ UNCHANGED <<session, chat, cluster, req, resp, agg, faults, prev, requests, input, call>>

\* listPersistentVolume rejects (caught) and the rollup is returned
VolumesReject ==
  /\ pc = "pvs"
  /\ http' = Success(Rollup(agg, StorageOf(NullItems)))
  /\ pc' = "done"
  /\ faults' = faults \cup {"pvs"}
  /\ UNCHANGED <<session, chat, cluster, req, resp, agg, prev, requests, input, call>>

(***************************************************************************)
(* GET /api/nodes -> getNodes, GET /api/namespaces -> getNamespaces: one   *)
(* Promise.all each, with no catch around the metrics read                 *)
(***************************************************************************)
\* the reads of a single Promise.all that reject: the control-plane lists
\* (when apiOk is false) and the metrics read (when the add-on is down)
RejectedOf(apiOk) ==
  (IF apiOk THEN {} ELSE {"api"}) \cup (IF MetricsUp THEN {} ELSE {"metrics"})

GetNodes ==
  /\ pc = "idle"
  /\ requests < MaxBuilds
  /\ \E apiOk \in BOOLEAN :
       /\ faults' = RejectedOf(apiOk)
       /\ http' = IF RejectedOf(apiOk) = {}
                  THEN Success(NodesBody(cluster.nodes,
                                         NodeMetricsItems(cluster.nodes, cluster.metrics),
                                         cluster.work.pods))
                  ELSE Failure("Failed to fetch nodes")
  /\ pc' = "done"
  /\ req' = "nodes"
  /\ requests' = requests + 1
  /\ UNCHANGED <<session, chat, cluster, resp, agg, prev, input, call>>

GetNamespaces ==
  /\ pc = "idle"
  /\ requests < MaxBuilds
  /\ \E apiOk \in BOOLEAN, revision \in {"all containers", "first container"} :
       /\ faults' = RejectedOf(apiOk)
       /\ http' = IF RejectedOf(apiOk) = {}
                  THEN Success(getNamespaces(cluster.work, revision))
                  ELSE Failure("Failed to fetch namespaces")
  /\ pc' = "done"
  /\ req' = "namespaces"
  /\ requests' = requests + 1
  /\ UNCHANGED <<session, chat, cluster, resp, agg, prev, input, call>>

\* the response is sent; the dashboard polls again
NextRequest ==
  /\ pc = "done"
  /\ pc' = "idle"
  /\ req' = "none"
  /\ resp' = [r \in Reads |-> Pending]
  /\ agg' = NoAggregate
  /\ http' = NoResponse
  /\ faults' = {}
  /\ prev' = IF req = "overview" /\ http.status = 200
             THEN [seen |-> TRUE, faults |-> faults, http |-> http]
             ELSE prev
  /\ call' = NoCall
  /\ UNCHANGED <<session, chat, cluster, requests, input>>

\* the page that issued the query renders the response it received
Render ==
  /\ pc = "done"
  /\ req \in {"overview", "nodes"}
  /\ http.status = 200
  /\ call = NoCall
  /\ call' = IF req = "overview"
             THEN [fn |-> "Overview", out |-> OverviewBars(http.body)]
             ELSE [fn |-> "Nodes", out |-> NodeBars(http.body)]
  /\ UNCHANGED <<session, chat, cluster, pc, req, resp, agg, http, faults, prev, requests, input>>

Next ==
  \/ StartOverview
  \/ \E r \in Reads : ReadResolve(r)
  \/ \E r \in RequiredReads : RequiredReadReject(r)
  \/ EventsReadReject
  \/ MetricsResolve
  \/ MetricsReject
  \/ VolumesResolve
  \/ VolumesReject
  \/ GetNodes
  \/ GetNamespaces
  \/ Render
  \/ NextRequest

Spec == Init /\ [][Next]_vars

(***************************************************************************)
(* The quantity helpers on their own: a quantity string is handed to one   *)
(* helper, or formatted and read back                                      *)
(***************************************************************************)
MaxIntDigits == 2

MaxFracDigits == 1

\* the generated literals are written with the digits 0, 1 and 5
DigitStrings(lo, hi) == UNION { [1..n -> {"0", "1", "5"}] : n \in lo..hi }

\* trailing zeros that lift a literal to millicore and core magnitudes
ZeroRuns == {<<>>, <<"0", "0", "0", "0", "0", "0">>,
    <<"0", "0", "0", "0", "0", "0", "0", "0", "0">>}

\* a decimal literal: integer digits, optionally "." and fraction digits
Literals ==
  { [int |-> i \o z, frac |-> f] :
      i \in DigitStrings(1, MaxIntDigits), z \in ZeroRuns,
      f \in DigitStrings(0, MaxFracDigits) }

CpuSuffixes == {<<>>, <<"m">>, <<"n">>}

\* none, the binary family and the decimal family
MemorySuffixes ==
  { <<>>, <<"K", "i">>, <<"M", "i">>, <<"G", "i">>, <<"T", "i">>, <<"P", "i">>, <<"K">>,
      <<"M">>, <<"G">>, <<"T">>, <<"P">> }

\* the quantities of the formatter documentation and of exact ties
Examples ==
  { <<"3", "2", "8", "5", "9", "9", "0", "8", "n">>,
    <<"1", "8", "4", "7", "1", "0", "0", "K", "i">>,
    <<"2", "0", "0", "0", "0", "0", "0", "0", "0", "0", "n">>,
    <<"2", "2", "0", "0", "0", "0", "0", "0", "0", "n">>,
    <<"1", "0", "0", "5", "0", "0", "0", "n">>,
    <<"9", "9", "9", "9", "9", "5", "0", "0", "0", "n">>,
    <<"8", "2", "7", "3", "4", "2", "0", "K", "i">>,
    <<"1", "0", "2", "3", ".", "9", "9", "9", "K", "i">>,
    <<"1", "2", "8", "9", "7", "4", "8", "4", "8">>,
    <<"1", "2", "9", "M">>,
    <<"5", "1", "2", "M", "i">>, <<"5", "1", "2", "m", "i">>,
    <<"4", "G", "i">>, <<"4", "G", "I">>,
    <<"-", "5", "0", "0", "m">>, <<"-", "1", "G", "i">>, <<"-", "0", ".", "5">> }

Malformed == { <<>>, <<"a", "b", "c">>, <<"N", "/", "A">>, <<"K", "i">>, <<".">>, <<"-">> }

\* a generated quantity, with the literal and the suffix it was written with
Written(q, u) ==
  [ text    |-> q.int \o (IF q.frac = <<>> THEN <<>> ELSE <<".">> \o q.frac) \o u,
    literal |-> <<q>>, suffix |-> u ]

QuantityStrings ==
  { Written(q, u) : q \in Literals, u \in CpuSuffixes \cup MemorySuffixes }
    \cup { Verbatim(s) : s \in Examples \cup Malformed }

QuantityInit ==
  /\ cluster = [nodes |-> <<>>, metrics |-> "down", work |-> EmptyWorkload]
  /\ ServiceIdle
  /\ session = ConnectedSession
  /\ input \in QuantityStrings
  /\ call = NoCall

Returned(fn, out) == [fn |-> fn, out |-> out]

CallToNanocores ==
  /\ call = NoCall
  /\ call' = Returned("toNanocores", toNanocores(input.text))
  /\ UNCHANGED <<session, chat, cluster, pc, req, resp, agg, http, faults, prev, requests, input>>

CallToKibibytes ==
  /\ call = NoCall
  /\ call' = Returned("toKibibytes", toKibibytes(input.text))
  /\ UNCHANGED <<session, chat, cluster, pc, req, resp, agg, http, faults, prev, requests, input>>

CallMemoryToBytes ==
  /\ call = NoCall
  /\ call' = Returned("memoryToBytes", memoryToBytes(input.text))
  /\ UNCHANGED <<session, chat, cluster, pc, req, resp, agg, http, faults, prev, requests, input>>

CallFormatCPU ==
  /\ call = NoCall
  /\ \E tieUp \in BOOLEAN : call' = Returned("formatCPU", formatCPU(input.text, tieUp))
  /\ UNCHANGED <<session, chat, cluster, pc, req, resp, agg, http, faults, prev, requests, input>>

CallFormatMemory ==
  /\ call = NoCall
  /\ \E tieUp \in BOOLEAN : call' = Returned("formatMemory", formatMemory(input.text, tieUp))
  /\ UNCHANGED <<session, chat, cluster, pc, req, resp, agg, http, faults, prev, requests, input>>

\* the capacities a usage is set against: none, a fixed one (eight cores,
\* 4Gi), and the usage itself
CallGetCPUPercentage ==
  /\ call = NoCall
  /\ \E totalCores \in {Zero, NInt(8), NScale(parseCPU(input.text), -9, -9)} :
       call' = [fn |-> "getCPUPercentage", total |-> totalCores,
                out |-> getCPUPercentage(input.text, totalCores)]
  /\ UNCHANGED <<session, chat, cluster, pc, req, resp, agg, http, faults, prev, requests, input>>

CallGetMemoryPercentage ==
  /\ call = NoCall
  /\ \E totalMemory \in {<<"0">>, <<"4", "G", "i">>, input.text} :
       call' = [fn |-> "getMemoryPercentage", total |-> memoryToBytes(totalMemory),
                out |-> getMemoryPercentage(input.text, totalMemory)]
  /\ UNCHANGED <<session, chat, cluster, pc, req, resp, agg, http, faults, prev, requests, input>>

\* the conversions getNamespaces applies to the usage of one container
CallNamespaceConversion ==
  /\ call = NoCall
  /\ \E dimension \in {"cpu", "memory"} :
       call' = Returned("getNamespaces." \o dimension,
                        IF dimension = "cpu" THEN NsCpuOf([cpu |-> input.text])
                        ELSE NsMemoryOf([memory |-> input.text]))
  /\ UNCHANGED <<session, chat, cluster, pc, req, resp, agg, http, faults, prev, requests, input>>

\* the formatted string is handed back to the parser that produced its value
ReparseCPU ==
  /\ call.fn = "formatCPU"
  /\ call' = [fn |-> "reparseCPU", shown |-> call.out, out |-> parseCPU(call.out)]
  /\ UNCHANGED <<session, chat, cluster, pc, req, resp, agg, http, faults, prev, requests, input>>

ReparseMemory ==
  /\ call.fn = "formatMemory"
  /\ call' = [fn |-> "reparseMemory", shown |-> call.out, out |-> memoryToBytes(call.out)]
  /\ UNCHANGED <<session, chat, cluster, pc, req, resp, agg, http, faults, prev, requests, input>>

QuantityNext ==
  \/ CallToNanocores
  \/ CallToKibibytes
  \/ CallMemoryToBytes
  \/ CallFormatCPU
  \/ CallFormatMemory
  \/ CallGetCPUPercentage
  \/ CallGetMemoryPercentage
  \/ CallNamespaceConversion
  \/ ReparseCPU
  \/ ReparseMemory

QuantitySpec == QuantityInit /\ [][QuantityNext]_vars

(***************************************************************************)
(* POST /api/execute-command -> executeCommand.  A command line is held as *)
(* its pieces between single spaces, which is what command.split(' ')      *)
(* returns: two adjacent spaces leave an empty piece.                      *)
(***************************************************************************)
\* command.split(' ').filter(p => p)
Parts(command) == SelectSeq(command, LAMBDA p : p # "")

\* parts[i - 1]: undefined past the end
Part(parts, i) == IF i <= Len(parts) THEN parts[i] ELSE Unset

\* const [_, verb, resource, name, ...options] = parts
Options(parts) == SubSeq(parts, 5, Len(parts))

\* options.indexOf('-n') + 1: 0 when '-n' is not among the options
IndexOfN(options) ==
  IF \E k \in 1..Len(options) : options[k] = "-n"
  THEN CHOOSE k \in 1..Len(options) :
         options[k] = "-n" /\ \A j \in 1..(k - 1) : options[j] # "-n"
  ELSE 0

\* let namespace = 'default';
\* if (nsIndex > -1 && options[nsIndex + 1]) namespace = options[nsIndex + 1]
NamespaceOf(options) ==
  IF IndexOfN(options) > 0 /\ Part(options, IndexOfN(options) + 1) # Unset
  THEN options[IndexOfN(options) + 1]
  ELSE "default"

\* a table that takes every resource for pods
EverythingIsPods(resource) == "pods"

\* resourceMap[resource]: undefined for a word that is not a key (the
\* inherited keys of an object literal yield values that are no keys of the
\* action tables either)
resourceMap(resource) ==
  CASE resource \in {"pod", "pods"} -> "pods"
    [] resource \in {"node", "nodes"} -> "nodes"
    [] resource \in {"deployment", "deployments"} -> "deployments"
    [] resource \in {"statefulset", "statefulsets"} -> "statefulsets"
    [] resource \in {"namespace", "namespaces"} -> "namespaces"
    [] OTHER -> Unset

\* a missing entry of an action table: calling it is a TypeError
NoAction == [fn |-> "undefined"]

ClusterCall(fn, args) == [fn |-> fn, args |-> args]

\* getActions[standardizedResource]
getActions(standardizedResource, namespace) ==
  CASE standardizedResource = "pods" -> ClusterCall("listNamespacedPod", <<namespace>>)
    [] standardizedResource = "nodes" -> ClusterCall("listNode", <<>>)
    [] standardizedResource = "deployments" ->
         ClusterCall("listNamespacedDeployment", <<namespace>>)
    [] standardizedResource = "statefulsets" ->
         ClusterCall("listNamespacedStatefulSet", <<namespace>>)
    [] standardizedResource = "namespaces" -> ClusterCall("listNamespace", <<>>)
    [] OTHER -> NoAction

\* describeActions[standardizedResource]
describeActions(standardizedResource, name, namespace) ==
  CASE standardizedResource = "pods" -> ClusterCall("readNamespacedPod", <<name, namespace>>)
    [] standardizedResource = "nodes" -> ClusterCall("readNode", <<name>>)
    [] standardizedResource = "deployments" ->
         ClusterCall("readNamespacedDeployment", <<name, namespace>>)
    [] standardizedResource = "statefulsets" ->
         ClusterCall("readNamespacedStatefulSet", <<name, namespace>>)
    [] standardizedResource = "namespaces" -> ClusterCall("readNamespace", <<name>>)
    [] OTHER -> NoAction

\* the call executeCommand awaits for the words of a command, NoAction when
\* it throws before any call
CommandCall(parts) ==
  IF Part(parts, 1) # "kubectl" THEN NoAction
  ELSE IF Part(parts, 2) = "get"
  THEN getActions(resourceMap(Part(parts, 3)), NamespaceOf(Options(parts)))
  ELSE IF Part(parts, 2) = "describe" /\ Part(parts, 4) # Unset
  THEN describeActions(resourceMap(Part(parts, 3)), Part(parts, 4),
                       NamespaceOf(Options(parts)))
  ELSE NoAction

\* what follows the resource on the command lines that are tried
CommandTails ==
  { <<>>, <<"web">>, <<"-n", "prod">>, <<"web", "-n", "prod">>, <<"web", "-n">>,
    <<"web", "", "-n", "prod">>, <<"web", "-o", "yaml", "-n", "prod">>,
    <<"web", "-n", "prod", "-n", "dev">> }

Commands ==
  { <<first, verb, resource>> \o tail :
      first \in {"kubectl", "helm"}, verb \in {"get", "describe", "delete", "apply"},
      resource \in {"pods", "pod", "node", "deployments", "statefulsets", "namespaces",
                     "secrets", "constructor"},
      tail \in CommandTails }
    \cup { <<>>, <<"kubectl">>, <<"kubectl", "get">>, <<"", "kubectl", "", "get", "pods">> }

CommandInit ==
  /\ cluster = [nodes |-> <<>>, metrics |-> "down", work |-> EmptyWorkload]
  /\ ServiceIdle
  /\ session = ConnectedSession
  /\ input \in { Verbatim(command) : command \in Commands }
  /\ call = NoCall

\* the route hands req.body.command to executeCommand, which throws or
\* issues its call
ExecuteCommand ==
  /\ pc = "idle"
  /\ req' = "execute-command"
  /\ IF CommandCall(Parts(input.text)) = NoAction
     THEN /\ pc' = "done"
          /\ http' = Failure("Failed to execute command")
          /\ call' = call
     ELSE /\ pc' = "executing"
          /\ http' = http
          /\ call' = CommandCall(Parts(input.text))
  /\ UNCHANGED <<session, chat, cluster, resp, agg, faults, prev, requests, input>>

\* the cluster answers: JSON.stringify(response.body, null, 2)
CommandResolve ==
  /\ pc = "executing"
  /\ pc' = "done"
  /\ http' = Success([result |-> call.fn])
  /\ UNCHANGED <<session, chat, cluster, req, resp, agg, faults, prev, requests, input, call>>

\* the cluster call rejects: `Failed to execute command: ${error.message}`
CommandReject ==
  /\ pc = "executing"
  /\ pc' = "done"
  /\ http' = Failure("Failed to execute command")
  /\ faults' = {"api"}
  /\ UNCHANGED <<session, chat, cluster, req, resp, agg, prev, requests, input, call>>

CommandNext ==
  \/ ExecuteCommand
  \/ CommandResolve
  \/ CommandReject

CommandSpec == CommandInit /\ [][CommandNext]_vars

(***************************************************************************)
(* The session routes of index.ts: connecting, and configuring the AI      *)
(* provider.  Each request is handled in one step.                         *)
(***************************************************************************)
NoSession ==
  [kubeconfig |-> Unset, aiProvider |-> Unset, aiApiKey |-> Unset, aiModel |-> Unset]

BadRequest(message) == [status |-> 400, body |-> [error |-> message]]

SessionInit ==
  /\ cluster = [nodes |-> <<>>, metrics |-> "down", work |-> EmptyWorkload]
  /\ ServiceIdle
  /\ session = NoSession
  /\ input = Verbatim(<<>>)
  /\ call = NoCall

\* GET /api/check-status
CheckStatus ==
  /\ req' = "check-status"
  /\ http' = Success([isConnected |-> session.kubeconfig # Unset])
  /\ faults' = {}
  /\ call' = NoCall
  /\ UNCHANGED <<session, chat, cluster, pc, resp, agg, prev, requests, input>>

\* POST /api/connect: the body carries no kubeconfig, one that cannot be
\* loaded, or a kubeconfig; the cluster is reachable or not, and when it is,
\* its metrics-server deployment is ready or not.  checkMetricsServer
\* catches the failure of its read and answers false.
Connect ==
  /\ req' = "connect"
  /\ call' = NoCall
  /\ \E kubeconfig \in {Unset, "garbage", "kubeconfig"}, reachable \in BOOLEAN,
         ready \in BOOLEAN :
       IF kubeconfig = Unset
       THEN /\ http' = BadRequest("Kubeconfig is required")
            /\ faults' = {}
            /\ session' = session
       ELSE IF kubeconfig = "garbage"
       THEN /\ http' = Failure("Failed to connect to Kubernetes cluster")
            /\ faults' = {"kubeconfig"}
            /\ session' = session
       ELSE /\ session' = [session EXCEPT !.kubeconfig = kubeconfig]
            /\ faults' = IF reachable THEN {} ELSE {"api"}
            /\ http' = Success([message |-> "Successfully connected to Kubernetes cluster.",
                                metricsServerAvailable |-> reachable /\ ready])
  /\ UNCHANGED <<chat, cluster, pc, resp, agg, prev, requests, input>>

\* a route behind checkSession: 401 without a kubeconfig in the session
GuardedRequest ==
  /\ \E route \in {"overview", "nodes", "workloads", "namespaces"}, reachable \in BOOLEAN :
       /\ req' = route
       /\ IF session.kubeconfig = Unset
          THEN /\ http' = [status |-> 401,
                           body |-> [error |-> "Not connected to a cluster."]]
               /\ faults' = {}
          ELSE /\ http' = IF reachable THEN Success(route) ELSE Failure("Failed to fetch")
               /\ faults' = IF reachable THEN {} ELSE {"api"}
  /\ call' = NoCall
  /\ UNCHANGED <<session, chat, cluster, pc, resp, agg, prev, requests, input>>

validProviders == {"openai", "anthropic", "gemini"}

\* if (model) { req.session.aiModel = model; }
StoredModel(stored, model) == IF model # Unset THEN model ELSE stored

\* POST /api/ai/configure; prev remembers the body that was accepted
AiConfigure ==
  /\ req' = "ai/configure"
  /\ \E provider \in validProviders \cup {Unset, "llama"}, apiKey \in {Unset, "key-a", "key-b"},
         model \in {Unset, "gpt-4", "claude-3-opus"} :
       IF provider = Unset \/ apiKey = Unset
       THEN /\ http' = BadRequest("Provider and API key are required")
            /\ UNCHANGED <<session, prev>>
       ELSE IF provider \notin validProviders
       THEN /\ http' = BadRequest("Invalid provider. Must be one of: openai, anthropic, gemini")
            /\ UNCHANGED <<session, prev>>
       ELSE /\ session' = [session EXCEPT !.aiProvider = provider, !.aiApiKey = apiKey,
                                          !.aiModel = StoredModel(session.aiModel, model)]
            /\ http' = Success([provider |-> provider,
                                model |-> IF model # Unset THEN model ELSE "default"])
            /\ prev' = [seen |-> TRUE, provider |-> provider, apiKey |-> apiKey,
                        model |-> model]
  /\ faults' = {}
  /\ call' = NoCall
  /\ UNCHANGED <<chat, cluster, pc, resp, agg, requests, input>>

\* GET /api/ai/config
AiGetConfig ==
  /\ req' = "ai/config"
  /\ http' = IF session.aiProvider # Unset /\ session.aiApiKey # Unset
             THEN Success([configured |-> TRUE, provider |-> session.aiProvider,
                           model |-> IF session.aiModel # Unset THEN session.aiModel
                                     ELSE "default"])
             ELSE Success([configured |-> FALSE])
  /\ faults' = {}
  /\ call' = NoCall
  /\ UNCHANGED <<session, chat, cluster, pc, resp, agg, prev, requests, input>>

\* DELETE /api/ai/config
AiDeleteConfig ==
  /\ req' = "ai/config/delete"
  /\ session' = [session EXCEPT !.aiProvider = Unset, !.aiApiKey = Unset, !.aiModel = Unset]
  /\ http' = Success([message |-> "AI provider configuration cleared"])
  /\ prev' = [seen |-> FALSE]
  /\ faults' = {}
  /\ call' = NoCall
  /\ UNCHANGED <<chat, cluster, pc, resp, agg, requests, input>>

\* x || y on strings
Or(x, y) == IF x # Unset THEN x ELSE y

\* AIProviderService.chat: model || the default model of the provider
ChatModel(provider, model) ==
  CASE provider = "openai" -> Or(model, "gpt-3.5-turbo")
    [] provider = "anthropic" -> Or(model, "claude-3-sonnet-20240229")
    [] provider = "gemini" -> Or(model, "gemini-pro")
    [] OTHER -> Unset

\* POST /api/ai/chat and POST /api/ai/analyze (behind checkSession): the
\* body may carry credentials of its own, and the chat body a messages array
\* or none; analyze reads the cluster overview first.  call records the
\* provider call that was made, and whether it relied on the session alone.
AiChat ==
  /\ \E route \in {"ai/chat", "ai/analyze"}, provider \in {Unset, "gemini", "llama"},
         apiKey \in {Unset, "key-c"}, model \in {Unset, "gemini-1.5"},
         wellFormed \in BOOLEAN, reachable \in BOOLEAN, answered \in BOOLEAN :
       LET failed == IF route = "ai/chat" THEN "Failed to get AI response"
                     ELSE "Failed to analyze cluster"
       IN
       /\ req' = route
       /\ IF route = "ai/analyze" /\ session.kubeconfig = Unset
          THEN /\ http' = [status |-> 401,
                           body |-> [error |-> "Not connected to a cluster."]]
               /\ call' = NoCall
               /\ faults' = {}
          ELSE IF Or(provider, session.aiProvider) = Unset
                  \/ Or(apiKey, session.aiApiKey) = Unset
          THEN /\ http' = BadRequest("AI provider not configured.")
               /\ call' = NoCall
               /\ faults' = {}
          ELSE IF route = "ai/chat" /\ ~wellFormed
          THEN /\ http' = BadRequest("Messages array is required")
               /\ call' = NoCall
               /\ faults' = {}
          ELSE IF route = "ai/analyze" /\ ~reachable
          THEN /\ http' = Failure(failed)
               /\ call' = NoCall
               /\ faults' = {"api"}
          ELSE IF ChatModel(Or(provider, session.aiProvider), Unset) = Unset
          THEN /\ http' = Failure(failed)
               /\ call' = NoCall
               /\ faults' = {"provider"}
          ELSE /\ call' = [fn |-> "chat",
                           fromSession |-> provider = Unset /\ apiKey = Unset /\ model = Unset,
                           provider |-> Or(provider, session.aiProvider),
                           apiKey |-> Or(apiKey, session.aiApiKey),
                           model |-> ChatModel(Or(provider, session.aiProvider),
                                               Or(model, session.aiModel))]
               /\ http' = IF answered THEN Success([response |-> "text"])
                          ELSE Failure(failed)
               /\ faults' = IF answered THEN {} ELSE {"provider"}
  /\ UNCHANGED <<session, chat, cluster, pc, resp, agg, prev, requests, input>>

SessionNext ==
  \/ CheckStatus
  \/ Connect
  \/ GuardedRequest
  \/ AiConfigure
  \/ AiGetConfig
  \/ AiDeleteConfig
  \/ AiChat

SessionSpec == SessionInit /\ [][SessionNext]_vars

(***************************************************************************)
(* The chat of AIAssistant.tsx.  handleSend runs to its await in one step  *)
(* and the component is rendered again before the next event; the part     *)
(* after the await runs in a later step and still sees the messages of the *)
(* render in which the send started.                                       *)
(***************************************************************************)
\* sends the user makes in one behaviour
MaxSends == 3

\* what the user may have in the text area
ChatTexts == {<<>>, <<" ">>, <<"h", "i">>, <<"h", "i", " ">>}

RECURSIVE trim(_)
trim(s) ==
  IF s = <<>> THEN s
  ELSE IF s[1] = " " THEN trim(Tail(s))
  ELSE IF s[Len(s)] = " " THEN trim(SubSeq(s, 1, Len(s) - 1))
  ELSE s

Sent == Len(SelectSeq(messages, LAMBDA m : m.role = "user"))

ChatInit ==
  /\ cluster = [nodes |-> <<>>, metrics |-> "down", work |-> EmptyWorkload]
  /\ ServiceIdle
  /\ session = ConnectedSession
  /\ input = Verbatim(<<>>)
  /\ call = NoCall

\* onChange of the text area
Type ==
  /\ \E text \in ChatTexts : input' = Verbatim(text)
  /\ input' # input
  /\ UNCHANGED <<session, chat, cluster, pc, req, resp, agg, http, faults, prev, requests, call>>

\* handleSend up to the await of fetch; the pending send keeps
\* messages.length of this render
handleSend ==
  /\ trim(input.text) # <<>>
  /\ Sent < MaxSends
  /\ messages' = Append(messages, [id |-> Len(messages) + 1, role |-> "user",
                                    content |-> input.text])
  /\ input' = Verbatim(<<>>)
  /\ isTyping' = TRUE
  /\ sends' = sends \cup {[length |-> Len(messages)]}
  /\ UNCHANGED <<session, cluster, pc, req, resp, agg, http, faults, prev, requests, call>>

\* the send button: disabled={!input.trim() || isTyping}
ClickSend ==
  /\ ~isTyping
  /\ handleSend

\* handleKeyPress: Enter without Shift calls handleSend, whatever isTyping is
PressEnter ==
  /\ \E shiftKey \in BOOLEAN : ~shiftKey
  /\ handleSend

\* the rest of handleSend: the reply, or the error message of the catch
\* block, then finally setIsTyping(false)
Answer ==
  /\ \E send \in sends, ok \in BOOLEAN :
       /\ messages' = Append(messages, [id |-> send.length + 2, role |-> "assistant",
                                         content |-> IF ok THEN <<"reply">> ELSE <<"error">>])
       /\ sends' = sends \ {send}
  /\ isTyping' = FALSE
  /\ UNCHANGED <<session, cluster, pc, req, resp, agg, http, faults, prev, requests, call, input>>

ChatNext ==
  \/ Type
  \/ ClickSend
  \/ PressEnter
  \/ Answer

ChatSpec == ChatInit /\ [][ChatNext]_vars

\* fetch settles: every pending send is answered
FairChatSpec == ChatSpec /\ WF_vars(Answer)

(***************************************************************************)
(* Properties of the served responses                                      *)
(***************************************************************************)
OverviewDone == pc = "done" /\ req = "overview"

OverviewServed == OverviewDone /\ http.status = 200

\* the fields of the object getClusterOverview documents, storage included
RollupFields == {"nodes", "pods", "namespaces", "deployments", "events", "storage"}

\* the figures that do not come from the events read
NonEventFigures(body) ==
  [ nodes |-> body.nodes, pods |-> body.pods, namespaces |-> body.namespaces,
    deployments |-> body.deployments ]

\* how an entry of a list says that usage was not measured
AbsentUsage(entry) ==
  /\ entry.cpuUsage \in {Null, <<"N", "/", "A">>}
  /\ entry.memoryUsage \in {Null, <<"N", "/", "A">>}

\* C1: when only the metrics read fails, the request is still answered, and
\* every used figure of the answer (cluster, each node, each namespace) is
\* the absent marker.
UsageAbsentWithoutMetrics ==
  (pc = "done" /\ faults = {"metrics"}) =>
    /\ http.status = 200
    /\ req = "overview" =>
         /\ http.body.nodes.cpu.used = Null
         /\ http.body.nodes.memory.used = Null
    /\ req \in {"nodes", "namespaces"} =>
         \A i \in 1..Len(http.body) : AbsentUsage(http.body[i])

\* C2: when the metrics read succeeded and returned samples, the cluster's
\* used figures are quantities (zero when the samples sum to zero), never
\* the absent marker.
MeasuredZeroIsReported ==
  ( /\ OverviewServed
    /\ "metrics" \notin faults
    /\ NodeMetricsItems(cluster.nodes, cluster.metrics) # <<>> ) =>
    /\ http.body.nodes.cpu.used # Null
    /\ http.body.nodes.memory.used # Null

\* C3: a rejected events read never fails the overview: it is served with
\* warnings = 0 and errors = 0, and its node, pod, namespace and deployment
\* figures equal those of the previous overview of the same cluster, which
\* is the whole previous body when that build read an empty events list.
\* A rejected nodes, pods, namespaces or deployments read makes the request
\* fail with the error body alone.
EventsOptionalOthersRequired ==
  OverviewDone =>
    /\ (faults \cap RequiredReads # {}) =>
         /\ http.status = 500
         /\ http.body.error = "Failed to fetch cluster overview"
         /\ DOMAIN http.body \cap RollupFields = {}
    /\ (faults \cap RequiredReads = {}) => http.status = 200
    /\ ("events" \in faults /\ faults \cap RequiredReads = {}) =>
         /\ http.body.events = [warnings |-> 0, errors |-> 0]
         /\ (prev.seen /\ prev.http.status = 200) =>
              NonEventFigures(http.body) = NonEventFigures(prev.http.body)
         /\ ( /\ prev.seen
              /\ prev.http.status = 200
              /\ prev.faults = faults \ {"events"}
              /\ cluster.work.events = <<>> ) => http.body = prev.http.body

\* C3 witness: the events read was rejected on a cluster with recent
\* warnings, after an overview that had reported them
EventsRejectedAfterWarnings ==
  /\ OverviewServed
  /\ "events" \in faults
  /\ http.body.events = [warnings |-> 0, errors |-> 0]
  /\ prev.seen
  /\ prev.http.status = 200
  /\ "events" \notin prev.faults
  /\ prev.http.body.events.warnings > 0

\* C4: the overview request ends in the error body alone or in a rollup
\* that holds every field of the rollup, whichever optional reads failed.
RollupAlwaysComplete ==
  OverviewDone =>
    \/ http.status = 500 /\ DOMAIN http.body = {"error", "details"}
    \/ http.status = 200 /\ DOMAIN http.body = RollupFields

(***************************************************************************)
(* Properties of the quantity helpers                                      *)
(***************************************************************************)
\* the number a literal writes, from its digits
LiteralValue(q) == NDec(BOfStr(q.int \o q.frac), -Len(q.frac))

NSub(x, y) == NAdd(x, NNeg(y))

NAbs(x) == [x EXCEPT !.neg = FALSE]

\* |x - y| <= tol
Within(x, y, tol) == x # NaN /\ y # NaN /\ NCmp(NAbs(NSub(x, y)), tol) <= 0

\* the value of the literal the input was written with
Written1 == LiteralValue(input.literal[1])

IsWritten(suffixes) == input.literal # <<>> /\ input.suffix \in suffixes

\* C5: toNanocores maps a non-negative decimal n with no suffix to
\* n * 10^9, with suffix "m" to n * 10^6 and with suffix "n" to n.
NanocoresBySuffix ==
  (call.fn = "toNanocores" /\ IsWritten(CpuSuffixes)) =>
    call.out = CASE input.suffix = <<"m">> -> NScale(Written1, 6, 6)
                 [] input.suffix = <<"n">> -> Written1
                 [] OTHER -> NScale(Written1, 9, 9)

\* C5 witness: "1.5m" was parsed to 1500000 nanocores
MillicoresParsed ==
  /\ input.text = <<"1", ".", "5", "m">>
  /\ call.fn = "toNanocores"
  /\ call.out = NInt(1500000)

\* the multiplier of a memory suffix, in bytes, applied to x
TimesSuffix(x, u) ==
  CASE u = <<"K", "i">> -> NScale(x, 10, 0)
    [] u = <<"M", "i">> -> NScale(x, 20, 0)
    [] u = <<"G", "i">> -> NScale(x, 30, 0)
    [] u = <<"T", "i">> -> NScale(x, 40, 0)
    [] u = <<"P", "i">> -> NScale(x, 50, 0)
    [] u = <<"K">> -> NScale(x, 3, 3)
    [] u = <<"M">> -> NScale(x, 6, 6)
    [] u = <<"G">> -> NScale(x, 9, 9)
    [] u = <<"T">> -> NScale(x, 12, 12)
    [] u = <<"P">> -> NScale(x, 15, 15)
    [] OTHER -> x

\* the bytes the written quantity stands for
WrittenBytes == TimesSuffix(Written1, input.suffix)

\* C6: a non-negative decimal n with a memory suffix parses to
\* n * multiplier bytes (memoryToBytes) and to n * multiplier / 1024
\* kibibytes (toKibibytes), the multiplier being 1024^k for Ki..Pi, 1000^k
\* for K..P and 1 without a suffix.
MemoryBySuffix ==
  IsWritten(MemorySuffixes) =>
    /\ call.fn = "memoryToBytes" => call.out = WrittenBytes
    /\ call.fn = "toKibibytes" => call.out = NScale(WrittenBytes, -10, 0)

\* C7: a malformed quantity string parses to the zero quantity.
MalformedIsZero ==
  ( /\ input.text \in Malformed
    /\ call.fn \in {"toNanocores", "toKibibytes", "memoryToBytes"} ) =>
    call.out = Zero

\* the rounding step of a formatted string: half of the last displayed
\* digit, in base units
NanocoreStep(shown) ==
  IF EndsWith(shown, <<"m">>) THEN NScale(NInt(5), 3, 3) ELSE NScale(NInt(5), 6, 6)

ByteStep(shown) ==
  IF EndsWith(shown, <<" ", "T", "i", "B">>) THEN NScale(NInt(5), 37, -3)
  ELSE IF EndsWith(shown, <<" ", "G", "i", "B">>) THEN NScale(NInt(5), 27, -3)
  ELSE IF EndsWith(shown, <<" ", "M", "i", "B">>) THEN NScale(NInt(5), 17, -3)
  ELSE IF EndsWith(shown, <<" ", "K", "i", "B">>) THEN NScale(NInt(5), 7, -3)
  ELSE NScale(NInt(5), -1, -1)

\* C8: a formatted quantity, read back by the parser of its formatter, is
\* within the displayed rounding of the value parsed from the original.
RoundTripWithinRounding ==
  /\ ( /\ call.fn = "reparseMemory"
       /\ (IsWritten(MemorySuffixes) \/ input.text = <<"1", "8", "4", "7", "1", "0", "0", "K", "i">>) ) =>
       Within(call.out, memoryToBytes(input.text), ByteStep(call.shown))
  /\ ( /\ call.fn = "reparseCPU"
       /\ (IsWritten({<<"n">>}) \/ input.text = <<"3", "2", "8", "5", "9", "9", "0", "8", "n">>) ) =>
       Within(call.out, parseCPU(input.text), NanocoreStep(call.shown))

\* digits, "." and exactly two digits
TwoDecimals(s) ==
  /\ Len(s) >= 4
  /\ s[Len(s) - 2] = "."
  /\ \A i \in 1..Len(s) : i # Len(s) - 2 => IsDigit(s[i])

AllDigits(s) == Len(s) >= 1 /\ \A i \in 1..Len(s) : IsDigit(s[i])

\* out is value rounded to two decimals (to an integer when decimals is
\* FALSE), followed by suffix
RendersAs(out, value, decimals, suffix) ==
  /\ EndsWith(out, suffix)
  /\ IF decimals THEN TwoDecimals(SliceEnd(out, Len(suffix)))
     ELSE AllDigits(SliceEnd(out, Len(suffix)))
  /\ Within(ParseFloat(SliceEnd(out, Len(suffix))), value,
            IF decimals THEN NScale(NInt(5), -3, -3) ELSE NScale(NInt(5), -1, -1))

\* a count of nanocores: digits, optionally followed by "n"
NanocoreDigits(s) == IF EndsWith(s, <<"n">>) THEN SliceEnd(s, 1) ELSE s

\* how v nanocores are to be rendered
CpuRendered(out, v) ==
  IF NLt(v, NScale(NInt(1), 9, 9))
  THEN RendersAs(out, NScale(v, -6, -6), TRUE, <<"m">>)
  ELSE RendersAs(out, NScale(v, -9, -9), TRUE, <<>>)

\* C9: formatCPU renders v nanocores as v / 10^6 with two decimals and "m"
\* when that is below 1000, and as v / 10^9 with two decimals and no suffix
\* otherwise; "32859908n" renders as "32.86m".
CpuRendering ==
  call.fn = "formatCPU" =>
    /\ AllDigits(NanocoreDigits(input.text)) =>
         CpuRendered(call.out, NDec(BOfStr(NanocoreDigits(input.text)), 0))
    /\ input.text = <<"3", "2", "8", "5", "9", "9", "0", "8", "n">> => call.out = <<"3", "2", ".", "8", "6", "m">>

\* C9 witness: the documented example was rendered
DocumentedCpuRendered ==
  /\ input.text = <<"3", "2", "8", "5", "9", "9", "0", "8", "n">>
  /\ call.fn = "formatCPU"
  /\ call.out = <<"3", "2", ".", "8", "6", "m">>

BinaryUnit(k) == NScale(NInt(1), 10 * k, 0)

BinaryUnitNames ==
  << <<" ", "B">>, <<" ", "K", "i", "B">>, <<" ", "M", "i", "B">>, <<" ", "G", "i", "B">>, <<" ", "T", "i", "B">> >>

\* the largest k in 1..4 with b >= 1024^k, or 0 (bytes) when there is none
LargestUnit(b) ==
  IF NLt(b, BinaryUnit(1)) THEN 0
  ELSE CHOOSE k \in 1..4 : NGe(b, BinaryUnit(k)) /\ (k = 4 \/ NLt(b, BinaryUnit(k + 1)))

MemoryRenderedIn(out, b, k) ==
  RendersAs(out, NScale(b, -10 * k, 0), k > 0, BinaryUnitNames[k + 1])

RECURSIVE BTimes(_, _)
BTimes(x, y) ==
  IF y = <<>> THEN <<>> ELSE BAdd(BMul(x, y[1]), BTrim(<<0>> \o BTimes(x, Tail(y))))

\* x * y for x, y >= 0
NMul(x, y) ==
  IF x = Zero \/ y = Zero THEN Zero
  ELSE [neg |-> FALSE, n |-> BTimes(x.n, y.n), e2 |-> x.e2 + y.e2, e5 |-> x.e5 + y.e5]

\* the fraction q is the number a / b (b > 0)
SameRatio(q, a, b) == q.num # NaN /\ q.den # Zero /\ NMul(q.num, b) = NMul(a, q.den)

\* the calculator was applied to a written quantity: memory with any
\* suffix, CPU as whole nanocores
PercentageOfWritten ==
  \/ call.fn = "getMemoryPercentage" /\ IsWritten(MemorySuffixes)
  \/ call.fn = "getCPUPercentage" /\ IsWritten({<<"n">>})
        /\ input.literal[1].frac = <<>>

\* the used quantity in the unit of call.total (bytes, cores)
UsedOfTotal ==
  IF call.fn = "getMemoryPercentage" THEN WrittenBytes ELSE NScale(Written1, -9, -9)

InDisplayRange(q) ==
  /\ q.num # NaN
  /\ q.den # Zero
  /\ NGe(q.num, Zero)
  /\ NCmp(q.num, NScale(q.den, 2, 2)) <= 0

\* C12: every utilization percentage the pages turn into a bar width or a
\* gauge (node CPU/memory bars; overview CPU/memory used, requests and
\* limits bars; pod-capacity gauge) lies in [0, 100].
DisplayedWithinRange ==
  call.fn \in {"Overview", "Nodes"} =>
    \A k \in 1..Len(call.out) : InDisplayRange(call.out[k])

(***************************************************************************)
(* Properties of the sums of the overview                                  *)
(***************************************************************************)
RECURSIVE AddAll(_)
AddAll(values) == IF values = <<>> THEN Zero ELSE NAdd(Head(values), AddAll(Tail(values)))

\* the samples the add-on holds for the nodes of the cluster
Samples == NodeMetricsItems(cluster.nodes, cluster.metrics)

\* the figure reports the sum x, or no usage when x is not positive
ReportsUsed(figure, x, unit) == NGt(x, Zero) => figure = NumToString(x) \o unit

Declared(r, dimension) ==
  IF ~r.present \/ r[dimension] = <<>> THEN Zero
  ELSE IF dimension = "cpu" THEN toNanocores(r.cpu) ELSE toKibibytes(r.memory)

\* the sum over every container of every pod of what it declares
DeclaredTotal(kind, dimension) ==
  AddAll([p \in 1..Len(cluster.work.pods) |->
            AddAll([c \in 1..Len(cluster.work.pods[p].containers) |->
                      Declared(cluster.work.pods[p].containers[c][kind], dimension)])])

\* C14: the overview's requested and limited figure of each dimension is
\* the sum, over every container of every pod, of the parsed request or
\* limit the container declares for the dimension (zero when it declares
\* none, or one for the other dimension only), and is always present.
RequestsAndLimitsAreSums ==
  OverviewServed =>
    /\ http.body.nodes.cpu.requests =
         NumToString(DeclaredTotal("requests", "cpu")) \o <<"n">>
    /\ http.body.nodes.cpu.limits = NumToString(DeclaredTotal("limits", "cpu")) \o <<"n">>
    /\ http.body.nodes.memory.requests =
         NumToString(DeclaredTotal("requests", "memory")) \o <<"K", "i">>
    /\ http.body.nodes.memory.limits =
         NumToString(DeclaredTotal("limits", "memory")) \o <<"K", "i">>

\* C14 witness: 500m + 250m requested, 1 + 500m cores and 1Gi limited, by
\* four containers of which one declares nothing
RequestsAndLimitsServed ==
  /\ OverviewServed
  /\ Len(cluster.work.pods) = 2
  /\ http.body.nodes.cpu.requests = <<"7", "5", "0", "0", "0", "0", "0", "0", "0", "n">>
  /\ http.body.nodes.cpu.limits = <<"1", "5", "0", "0", "0", "0", "0", "0", "0", "0", "n">>
  /\ http.body.nodes.memory.requests = <<"1", "3", "1", "0", "7", "2", "K", "i">>
  /\ http.body.nodes.memory.limits = <<"1", "0", "4", "8", "5", "7", "6", "K", "i">>

\* the rollup of the lists in the order the cluster stores them, for the
\* events list and the metrics outcome of the build in progress
StoredOrderRollup ==
  Rollup(Aggregate(cluster.nodes, cluster.work.pods, cluster.work.namespaces,
                   cluster.work.deployments, resp["events"].items,
                   IF MetricsUp THEN Items(Samples) ELSE NullItems),
         StorageOf(NullItems))

\* the total, requested, limited and used figures of both dimensions
ResourceFigures(body) == <<body.nodes.cpu, body.nodes.memory>>

\* C15: whatever order the node list, the pod list, the containers inside
\* each pod and the metrics samples are served in, the overview returns the
\* same total, requested, limited and used figures: those of the stored
\* order, and those of the previous overview of the cluster.
OrderIndependent ==
  OverviewServed =>
    /\ ResourceFigures(http.body) = ResourceFigures(StoredOrderRollup)
    /\ prev.seen => ResourceFigures(http.body) = ResourceFigures(prev.http.body)

\* C15 witness: an overview was served from a node list and a pod list in
\* another order than stored, the containers reordered too
ReorderedOverviewServed ==
  /\ OverviewServed
  /\ resp["nodes"].items # cluster.nodes
  /\ resp["pods"].items # cluster.work.pods
  /\ Len(resp["pods"].items) = 2
  /\ resp["pods"].items[2].containers # cluster.work.pods[1].containers
  /\ Len(resp["pods"].items[2].containers) = 3
  /\ http.body.nodes.cpu.used # Null
  /\ prev.seen

(***************************************************************************)
(* Namespace usage                                                          *)
(***************************************************************************)
NamespacesServed == pc = "done" /\ req = "namespaces" /\ http.status = 200

\* the CPU usage an entry reports, in nanocores, and its memory usage, in Ki
ReportedCpu(entry) ==
  toNanocores(IF "cpuUsage" \in DOMAIN entry THEN entry.cpuUsage ELSE entry.cpu)

ReportedMemory(entry) ==
  toKibibytes(IF "memoryUsage" \in DOMAIN entry THEN entry.memoryUsage ELSE entry.memory)

\* the usage of every container of every sample of the namespace
ContainerSamples(ns) == AllUsage(InNamespace(cluster.work.pods, ns), 1)

\* C16: the CPU and memory usage of every namespace entry are the sums of
\* the usage of all containers of the pod-metrics samples of that namespace,
\* and of no other namespace.
NamespaceUsageIsSumOverContainers ==
  NamespacesServed =>
    \A i \in 1..Len(http.body) :
      /\ ReportedCpu(http.body[i]) =
           MathRound(AddAll([k \in 1..Len(ContainerSamples(http.body[i].name)) |->
             toNanocores(ContainerSamples(http.body[i].name)[k].cpu)]))
      /\ ReportedMemory(http.body[i]) =
           MathRound(AddAll([k \in 1..Len(ContainerSamples(http.body[i].name)) |->
             toKibibytes(ContainerSamples(http.body[i].name)[k].memory)]))

(***************************************************************************)
(* Deployment availability                                                  *)
(***************************************************************************)
\* the deployments of the cluster whose declared replicas are all ready and
\* that declare at least one
FullyReady ==
  { i \in 1..Len(cluster.work.deployments) :
      /\ cluster.work.deployments[i].readyReplicas = cluster.work.deployments[i].replicas
      /\ cluster.work.deployments[i].replicas > 0 }

\* C17: deployments.available counts exactly the deployments whose ready
\* replicas equal their declared replicas with more than 0 declared; so
\* available never exceeds total, and a deployment declared with 0 replicas
\* is not counted.
AvailableDeploymentsCounted ==
  OverviewServed =>
    /\ http.body.deployments.available = Cardinality(FullyReady)
    /\ http.body.deployments.total = Len(cluster.work.deployments)
    /\ http.body.deployments.available <= http.body.deployments.total
    /\ http.body.deployments.available <=
         Cardinality({ i \in 1..Len(cluster.work.deployments) :
                        cluster.work.deployments[i].replicas > 0 })

\* an overview of a cluster with a deployment scaled to 0, one fully ready
\* and one not ready
ScaledToZeroNotAvailable ==
  /\ OverviewServed
  /\ \E i \in 1..Len(cluster.work.deployments) :
       /\ cluster.work.deployments[i].replicas = 0
       /\ cluster.work.deployments[i].readyReplicas = 0
  /\ http.body.deployments = [total |-> 3, available |-> 1]

(***************************************************************************)
(* Event counters                                                           *)
(***************************************************************************)
\* the events of the cluster whose timestamp lies within the last hour
LastHour ==
  { i \in 1..Len(cluster.work.events) : cluster.work.events[i].time = "recent" }

\* C18: only events of the last hour are counted, and each of them in at
\* most one of the two buckets: warnings + errors never exceeds the number
\* of events of the last hour.
EventsCountedOnce ==
  OverviewServed =>
    /\ http.body.events.warnings <= Cardinality(LastHour)
    /\ http.body.events.errors <= Cardinality(LastHour)
    /\ http.body.events.warnings + http.body.events.errors <= Cardinality(LastHour)

(***************************************************************************)
(* The join of the reads                                                    *)
(***************************************************************************)
\* the build is past the join: the metrics read is awaited, the sums exist,
\* or the rollup was returned
PastJoin ==
  /\ req = "overview"
  /\ pc \in {"metrics", "pvs"} \/ agg # NoAggregate \/ OverviewServed

\* C19: the sums are computed only once the nodes, pods, namespaces and
\* deployments reads have resolved and the events read has resolved or was
\* replaced by the empty list; and the rollup does not depend on the order
\* in which the reads completed: two builds of the same cluster that met the
\* same failures return the same rollup.
AggregationAfterJoin ==
  /\ PastJoin =>
       /\ \A r \in RequiredReads : resp[r].state = "ok" /\ r \notin faults
       /\ resp["events"].state = "ok"
       /\ "events" \in faults => resp["events"].items = <<>>
       /\ "events" \notin faults => resp["events"].items = cluster.work.events
  /\ (OverviewServed /\ prev.seen /\ prev.faults = faults) => http.body = prev.http.body

\* a second overview of a cluster with workloads, the events read having
\* been replaced by the empty list in both builds
RebuiltAfterJoin ==
  /\ OverviewServed
  /\ prev.seen
  /\ prev.faults = faults
  /\ faults = {"events"}
  /\ http.body.pods.total > 0
  /\ \A r \in Reads : resp[r].state = "ok"

(***************************************************************************)
(* Letter case of the unit                                                  *)
(***************************************************************************)
\* what the parser that was called returns for a string
ParsedBy(fn, text) ==
  CASE fn = "toNanocores" -> toNanocores(text)
    [] fn = "toKibibytes" -> toKibibytes(text)
    [] fn = "memoryToBytes" -> memoryToBytes(text)

\* C20: a parser returns the same quantity for a string and for the string
\* with its unit in another letter case (here: in lower case, the form that
\* all spellings of a unit share).
UnitCaseIgnored ==
  call.fn \in {"toNanocores", "toKibibytes", "memoryToBytes"} =>
    call.out = ParsedBy(call.fn, ToLowerCase(input.text))

(***************************************************************************)
(* CPU units of the formatters                                              *)
(***************************************************************************)
\* the same CPU quantity written in nanocores
InNanocores(text) == NumToString(toNanocores(text)) \o <<"n">>

\* C21: formatCPU and getCPUPercentage treat a quantity written in cores or
\* in millicores as they treat the same quantity written in nanocores.
CpuUnitsEquivalent ==
  (input.literal # <<>> /\ input.suffix \in {<<>>, <<"m">>}) =>
    /\ call.fn = "formatCPU" =>
         call.out \in { formatCPU(InNanocores(input.text), tieUp) : tieUp \in BOOLEAN }
    /\ call.fn = "getCPUPercentage" =>
         call.out = getCPUPercentage(InNanocores(input.text), call.total)

(***************************************************************************)
(* Sign of the parsed quantities                                            *)
(***************************************************************************)
\* C22: a quantity returned by a parser is never below zero, whatever the
\* string, a leading minus sign included (a result that is not a number at
\* all is the matter of the malformed strings, and is left aside here).
ParsedNonNegative ==
  (call.fn \in {"toNanocores", "toKibibytes", "memoryToBytes"} /\ call.out # NaN) =>
    NGe(call.out, Zero)

(***************************************************************************)
(* A node without a sample                                                  *)
(***************************************************************************)
\* C23: when the add-on answers but holds no sample for one node, the used
\* figures of the cluster stay present and are the sums of the samples that
\* exist, the node without a sample counting for zero.
MissingSampleCountsZero ==
  (OverviewServed /\ cluster.metrics = "partial") =>
    /\ http.body.nodes.cpu.used =
         Rounded(AddAll([i \in 1..Len(Samples) |-> toNanocores(Samples[i].usage.cpu)]),
                 <<"n">>)
    /\ http.body.nodes.memory.used =
         Rounded(AddAll([i \in 1..Len(Samples) |-> toKibibytes(Samples[i].usage.memory)]),
                 <<"K", "i">>)

(***************************************************************************)
(* The two conversions of the service                                       *)
(***************************************************************************)
\* C28: for every well-formed quantity (a decimal literal and a suffix),
\* the conversion getNamespaces applies to a container's usage returns what
\* the cluster-scope parser returns for the same string: toNanocores for
\* CPU, toKibibytes for memory.
ConversionsAgree ==
  input.literal # <<>> =>
    /\ call.fn = "getNamespaces.cpu" => call.out = toNanocores(input.text)
    /\ call.fn = "getNamespaces.memory" => call.out = toKibibytes(input.text)

(***************************************************************************)
(* Node capacity                                                            *)
(***************************************************************************)
NodesServed == pc = "done" /\ req = "nodes" /\ http.status = 200

\* C29: the cpuCapacity getNodes returns for a node is the node's reported
\* CPU capacity in nanocores, whether it is reported in whole cores or in
\* millicores (the capacity the Nodes view divides the usage by).
CapacityInNanocores ==
  NodesServed =>
    \A i \in 1..Len(http.body) :
      cluster.nodes[http.body[i].name].hasCapacity =>
        http.body[i].cpuCapacity =
          NumToString(toNanocores(cluster.nodes[http.body[i].name].cpu)) \o <<"n">>

(***************************************************************************)
(* The terminal                                                             *)
(***************************************************************************)
ListCalls ==
  { "listNamespacedPod", "listNode", "listNamespacedDeployment",
    "listNamespacedStatefulSet", "listNamespace" }

ReadCalls ==
  { "readNamespacedPod", "readNode", "readNamespacedDeployment",
    "readNamespacedStatefulSet", "readNamespace" }

\* the words a resource of the terminal may be written with
ResourceWords ==
  { "pod", "pods", "node", "nodes", "deployment", "deployments", "statefulset",
    "statefulsets", "namespace", "namespaces" }

\* the words of the command that was handed in
Typed == SelectSeq(input.text, LAMBDA p : p # "")

\* C24: a cluster call is issued only for a command whose first word is
\* kubectl, whose verb is get (a list call) or describe followed by a name
\* (a read call) and whose resource is one of pods, nodes, deployments,
\* statefulsets, namespaces; every other command is answered with an error
\* and no call; no call other than a list or a read is ever issued.
TerminalReadOnly ==
  /\ call # NoCall =>
       /\ call.fn \in ListCalls \cup ReadCalls
       /\ Len(Typed) >= 3
       /\ Typed[1] = "kubectl"
       /\ Typed[3] \in ResourceWords
       /\ call.fn \in ListCalls => Typed[2] = "get"
       /\ call.fn \in ReadCalls =>
            Typed[2] = "describe" /\ Len(Typed) >= 4 /\ call.args[1] = Typed[4]
  /\ (pc = "done" /\ call = NoCall) => http.status = 500
  /\ (pc # "idle" /\ ( \/ Len(Typed) < 3
                       \/ Typed[1] # "kubectl"
                       \/ Typed[2] \notin {"get", "describe"}
                       \/ Typed[3] \notin ResourceWords )) =>
       call = NoCall /\ http.status = 500

\* kubectl delete pods web -n prod was refused without a call
DeleteRefused ==
  /\ pc = "done"
  /\ Typed = <<"kubectl", "delete", "pods", "web", "-n", "prod">>
  /\ call = NoCall
  /\ http.status = 500

\* the calls that take a namespace, as their last argument
NamespacedCalls ==
  { "listNamespacedPod", "listNamespacedDeployment", "listNamespacedStatefulSet",
    "readNamespacedPod", "readNamespacedDeployment", "readNamespacedStatefulSet" }

\* C25: the call issued for kubectl get <resource> -n <ns> and for
\* kubectl describe <resource> <name> -n <ns> on a namespaced resource
\* targets <ns>; the namespace default is targeted only when the command
\* carries no -n option.
NamespaceHonoured ==
  call.fn \in NamespacedCalls =>
    /\ (Len(Typed) = 5 /\ Typed[2] = "get" /\ Typed[4] = "-n") =>
         call.args[Len(call.args)] = Typed[5]
    /\ (Len(Typed) = 6 /\ Typed[2] = "describe" /\ Typed[5] = "-n") =>
         call.args[Len(call.args)] = Typed[6]
    /\ call.args[Len(call.args)] = "default" =>
         ~ \E k \in 4..(Len(Typed) - 1) : Typed[k] = "-n"

(***************************************************************************)
(* Connecting                                                               *)
(***************************************************************************)
\* C26: a POST /api/connect whose cluster could not be reached is answered
\* with an error and leaves the session as it was (so that check-status and
\* the guarded routes stay closed).
ConnectOnlyWhenReached ==
  [][(req' = "connect" /\ "api" \in faults') => (http'.status >= 400 /\ session' = session)]_vars

(***************************************************************************)
(* The AI configuration of the session                                      *)
(***************************************************************************)
\* C27: the AI configuration of the session is that of the last accepted
\* configure call (none after a delete): provider, key and model; a chat or
\* analyze request that relies on the session calls that provider with that
\* model, and with the provider's default model when the call named none.
LastConfigurationWins ==
  /\ prev.seen =>
       /\ session.aiProvider = prev.provider
       /\ session.aiApiKey = prev.apiKey
       /\ session.aiModel = prev.model
       /\ (call.fn = "chat" /\ call.fromSession) =>
            /\ call.provider = prev.provider
            /\ call.apiKey = prev.apiKey
            /\ call.model = ChatModel(prev.provider, prev.model)
  /\ ~prev.seen =>
       session.aiProvider = Unset /\ session.aiApiKey = Unset /\ session.aiModel = Unset

(***************************************************************************)
(* The chat                                                                 *)
(***************************************************************************)
\* C30: the ids of the messages in the list are pairwise distinct after any
\* sequence of sends and answers, a send by Enter while an earlier send is
\* pending included.
MessageIdsUnique ==
  \A i, j \in DOMAIN messages : i # j => messages[i].id # messages[j].id

\* the other half of C30: one assistant message per answered send, and every
\* pending send is answered, after which the typing indicator is off
OneAnswerPerSend ==
  Len(SelectSeq(messages, LAMBDA m : m.role = "assistant")) = 1 + Sent - Cardinality(sends)

EverySendAnswered ==
  \A length \in 1..(2 * MaxSends) :
    ([length |-> length] \in sends) ~> ([length |-> length] \notin sends /\ ~isTyping)

=============================================================================
